---- MODULE Spec2Model ----
(***************************************************************************)
(* Retrieval-and-memoization engine of jagalchi-server-AI.                 *)
(*                                                                         *)
(*   SnapshotStore    repository/snapshot_store.py     (SpecStore)         *)
(*   HybridRetriever  ai_core/retrieval/retrieval.py   (SpecFusion)        *)
(*   SemanticCache    retrieval/semantic_cache.py over the in-memory       *)
(*                    vector store of ai_core/vector_store.py (SpecCache)  *)
(*                                                                         *)
(* Every component owns its own variables; a component's specification     *)
(* runs that component's operations and leaves the others as constructed.  *)
(***************************************************************************)
EXTENDS Integers, Sequences, FiniteSets, TLC

VARIABLES
    \* SnapshotStore
    store,      \* self._store : key -> Snapshot (a dict: the domain grows)
    hits,       \* self.hits
    misses,     \* self.misses
    now,        \* the clock datetime.utcnow() reads, in ticks
    pc,         \* per caller: position inside get_or_create
    frame,      \* per caller: the locals of its get_or_create call
    ret,        \* per caller: what its last call returned or raised
    calls,      \* history: get_or_create calls started, per key
    builds,     \* history: builder() invocations, per key
    first,      \* history: the snapshot the first put of a key stored
    ops,        \* history: operations started (get, put, get_or_create)
    hist,       \* history: which kinds of event have happened so far
    gets,       \* history: direct get calls made
    \* HybridRetriever
    retrievers, \* self._retrievers : list of strategy names (with their functions)
    weights,    \* self._weights : name -> weight, in tenths
    answers,    \* per strategy: the ranked hits its function finds for the query
    top_k,      \* the top_k of the last search
    result,     \* what the last search returned
    invoked,    \* history: the strategy calls the last search made, in order
    \* SemanticCache and its private InMemoryVectorStore
    entries,    \* self._entries : entry id n ("cache:n") -> CacheEntry
    items,      \* self._store._items : the vector items, in insertion order
    threshold,  \* self._threshold, as <<numerator, denominator>>
    bucket,     \* token -> hash(token) % dim, fixed for the process
    cret,       \* the last cache operation and what it returned
    \* BM25Index
    docs,       \* self._docs : the documents, in insertion order of their ids
    doc_freq,   \* self._doc_freq : Counter term -> count
    doc_len,    \* self._doc_len : doc id -> token count
    avg_len,    \* self._avg_len, as [num, den]
    bret,       \* the last index operation and what it returned
    given,      \* history: per id, the document handed to add_documents, if one only
    regiven,    \* history: the ids handed to add_documents more than once
    \* InMemoryVectorStore used on its own
    vitems,     \* self._items : the vector items, in insertion order of their ids
    vret,       \* the last store operation and what it returned
    latest,     \* history: per id, the item of its most recent upsert
    replaced,   \* history: the ids upserted more than once
    \* GraphRetriever
    adjacency,  \* self._adjacency : node id -> list of neighbor ids
    node_text,  \* self._node_text : node id -> text
    gret,       \* the last search and what it returned
    \* SimpleWorkflow and its InMemoryCheckpoint
    states,     \* self._checkpoint._states : session id -> list of WorkflowState
    wclock,     \* the clock datetime.utcnow() reads, in ticks
    wfret,      \* the last workflow operation and what it returned or raised
    \* ProgressTrackingService
    pstate,     \* self._state : user id -> node id -> LearningState
    roadmap,    \* the Roadmap the caller passes: its nodes and edges
    pclock,     \* the clock datetime.utcnow() reads, in ticks
    pret,       \* the last tracking operation and what it returned or raised
    \* WebSearchService
    tavily_up,  \* self._tavily.available
    exa_up,     \* self._exa.available()
    external_off, \* the environment has AI_DISABLE_EXTERNAL = "true"
    wcalls,     \* the calls the engine clients received, in order
    wdone       \* the searches made so far and what each returned

storeVars == <<store, hits, misses, now, pc, frame, ret, calls, builds, first, ops, hist, gets>>

fusionVars == <<retrievers, weights, answers, top_k, result, invoked>>

cacheVars == <<entries, items, threshold, bucket, cret>>

bm25Vars == <<docs, doc_freq, doc_len, avg_len, bret, given, regiven>>

vectorVars == <<vitems, vret, latest, replaced>>

graphVars == <<adjacency, node_text, gret>>

workflowVars == <<states, wclock, wfret>>

progressVars == <<pstate, roadmap, pclock, pret>>

webVars == <<tavily_up, exa_up, external_off, wcalls, wdone>>

vars == <<storeVars, fusionVars, cacheVars, bm25Vars, vectorVars, graphVars, workflowVars, progressVars, webVars>>

\* what an operation of one component leaves alone: the other components
notStore == <<fusionVars, cacheVars, bm25Vars, vectorVars, graphVars, workflowVars, progressVars, webVars>>

notFusion == <<storeVars, cacheVars, bm25Vars, vectorVars, graphVars, workflowVars, progressVars, webVars>>

notCache == <<storeVars, fusionVars, bm25Vars, vectorVars, graphVars, workflowVars, progressVars, webVars>>

notBM25 == <<storeVars, fusionVars, cacheVars, vectorVars, graphVars, workflowVars, progressVars, webVars>>

notGraph == <<storeVars, fusionVars, cacheVars, bm25Vars, vectorVars, workflowVars, progressVars, webVars>>

notVector == <<storeVars, fusionVars, cacheVars, bm25Vars, graphVars, workflowVars, progressVars, webVars>>

notWorkflow == <<storeVars, fusionVars, cacheVars, bm25Vars, vectorVars, graphVars, progressVars, webVars>>

notProgress == <<storeVars, fusionVars, cacheVars, bm25Vars, vectorVars, graphVars, workflowVars, webVars>>

\* a web search goes through the snapshot store
notWeb == <<fusionVars, cacheVars, bm25Vars, vectorVars, graphVars, workflowVars, progressVars>>

(***************************************************************************)
(* Optional values: Python's None is the empty sequence, a value x is <<x>>.*)
(***************************************************************************)
None == <<>>

Some(x) == <<x>>

(***************************************************************************)
(* SnapshotStore                                                           *)
(***************************************************************************)
Keys == {"k1", "k2"}

Versions == {"v1", "v2"}

\* What a builder can return; "empty" is the falsy payload {}.
Payloads == {"empty", "p1"}

\* Callers that may each be inside one get_or_create call.
Threads == {"t1", "t2"}

\* Operations started on the store in one behaviour.
MaxCalls == 3

\* Snapshot(key, payload, version, created_at, metadata)
Snapshot(key, payload, version, created_at) ==
    [key |-> key, payload |-> payload, version |-> version,
     created_at |-> created_at, metadata |-> None]

NoFrame == [key |-> "k1", version |-> "v1", cached |-> None, payload |-> None]

NoRet == [status |-> "none", val |-> None]

Returned(x) == [status |-> "ok", val |-> x]

Raised == [status |-> "raise", val |-> None]

\* dict.get(key): the snapshot, or None
Lookup(s, key) == IF key \in DOMAIN s THEN Some(s[key]) ELSE None

\* A truth test that looks at the payload: {} is falsy.
TruthyPayload(snapshot) == snapshot # None /\ snapshot[1].payload # "empty"

\* `if snapshot:` -- a Snapshot dataclass instance is always truthy
Truthy(snapshot) == snapshot # None

\* A get that counts every lookup as a hit.
HitsAfterGetAlways(snapshot) == hits + 1

\* A get that does not count a key it did not find.
MissesAfterGetNever(snapshot) == misses

\* SnapshotStore.get: the counters after looking `snapshot` up
HitsAfterGet(snapshot) == IF Truthy(snapshot) THEN hits + 1 ELSE hits

MissesAfterGet(snapshot) == IF Truthy(snapshot) THEN misses ELSE misses + 1

\* A put that drops the snapshots of the other keys.
StoreAfterPutAlone(s, key, snapshot) == [k \in {key} |-> snapshot]

\* A put that keeps an entry already stored (dict.setdefault).
StoreAfterPutIfAbsent(s, key, snapshot) ==
    [k \in DOMAIN s \cup {key} |-> IF k \in DOMAIN s THEN s[k] ELSE snapshot]

\* SnapshotStore.put: self._store[key] = snapshot
StoreAfterPut(s, key, snapshot) ==
    [k \in DOMAIN s \cup {key} |-> IF k = key THEN snapshot ELSE s[k]]

\* A get_or_create that builds again when the stored payload is empty.
GocHitNonEmpty(cached, version) == cached # None /\ cached[1].payload # "empty"

\* A hit that also requires the stored version to be the requested one.
GocHitSameVersion(cached, version) == Truthy(cached) /\ cached[1].version = version

\* get_or_create line 65, `if cached:` -- the requested version is not consulted
GocHit(cached, version) == Truthy(cached)

\* SnapshotStore.size()
Size(s) == Cardinality(DOMAIN s)

Started == calls["k1"] + calls["k2"]

Busy == {t \in Threads : pc[t] # "idle"}

StoreInit ==
    /\ store = <<>>
    /\ hits = 0
    /\ misses = 0
    /\ now = 0
    /\ pc = [t \in Threads |-> "idle"]
    /\ frame = [t \in Threads |-> NoFrame]
    /\ ret = [t \in Threads |-> NoRet]
    /\ calls = [k \in Keys |-> 0]
    /\ builds = [k \in Keys |-> 0]
    /\ first = <<>>
    /\ ops = 0
    /\ hist = {}
    /\ gets = 0

\* get(key), called directly
Get(t, key) ==
    /\ pc[t] = "idle"
    /\ ops < MaxCalls
    /\ ops' = ops + 1
    /\ LET snapshot == Lookup(store, key) IN
        /\ hits' = HitsAfterGet(snapshot)
        /\ misses' = MissesAfterGet(snapshot)
        /\ ret' = [ret EXCEPT ![t] = Returned(snapshot)]
    /\ hist' = hist \cup {"get"}
    /\ gets' = gets + 1
    /\ UNCHANGED <<store, now, pc, frame, calls, builds, first>>
    /\ UNCHANGED notStore

\* put(key, payload, version), called directly
Put(t, key, payload, version) ==
    /\ pc[t] = "idle"
    /\ ops < MaxCalls
    /\ ops' = ops + 1
    /\ LET snapshot == Snapshot(key, payload, version, now) IN
        /\ store' = StoreAfterPut(store, key, snapshot)
        /\ ret' = [ret EXCEPT ![t] = Returned(Some(snapshot))]
        /\ first' = IF key \in DOMAIN first THEN first
                    ELSE StoreAfterPut(first, key, snapshot)
    /\ now' = now + 1
    /\ hist' = hist \cup {"put"}
    /\ UNCHANGED <<hits, misses, pc, frame, calls, builds, gets>>
    /\ UNCHANGED notStore

\* get_or_create lines 64-66: cached = self.get(key); if cached: return cached
GocGet(t, key, version) ==
    /\ pc[t] = "idle"
    /\ ops < MaxCalls
    /\ ops' = ops + 1
    /\ LET cached == Lookup(store, key) IN
        /\ hits' = HitsAfterGet(cached)
        /\ misses' = MissesAfterGet(cached)
        /\ frame' = [frame EXCEPT ![t] =
                [key |-> key, version |-> version, cached |-> cached, payload |-> None]]
        /\ IF GocHit(cached, version)
           THEN /\ pc' = pc
                /\ ret' = [ret EXCEPT ![t] = Returned(cached)]
           ELSE /\ pc' = [pc EXCEPT ![t] = "build"]
                /\ ret' = [ret EXCEPT ![t] = NoRet]
    /\ calls' = [calls EXCEPT ![key] = @ + 1]
    /\ hist' = IF Busy # {} THEN hist \cup {"overlap"} ELSE hist
    /\ UNCHANGED <<store, now, builds, first, gets>>
    /\ UNCHANGED notStore

\* get_or_create line 67: payload = builder(), the builder returning
GocBuild(t, payload) ==
    /\ pc[t] = "build"
    /\ builds' = [builds EXCEPT ![frame[t].key] = @ + 1]
    /\ frame' = [frame EXCEPT ![t].payload = Some(payload)]
    /\ pc' = [pc EXCEPT ![t] = "put"]
    /\ UNCHANGED <<store, hits, misses, now, ret, calls, first, ops, hist, gets>>
    /\ UNCHANGED notStore

\* A builder failure that leaves a snapshot without payload behind.
GocBuildRaisesStoring(t) ==
    /\ pc[t] = "build"
    /\ builds' = [builds EXCEPT ![frame[t].key] = @ + 1]
    /\ pc' = [pc EXCEPT ![t] = "idle"]
    /\ ret' = [ret EXCEPT ![t] = Raised]
    /\ hist' = hist \cup {"raise"}
    /\ store' = StoreAfterPut(store, frame[t].key,
                    Snapshot(frame[t].key, "p1", frame[t].version, now))
    /\ UNCHANGED <<hits, misses, now, frame, calls, first, ops, gets>>
    /\ UNCHANGED notStore

\* get_or_create line 67: builder() raising; the exception leaves get_or_create
GocBuildRaises(t) ==
    /\ pc[t] = "build"
    /\ builds' = [builds EXCEPT ![frame[t].key] = @ + 1]
    /\ pc' = [pc EXCEPT ![t] = "idle"]
    /\ ret' = [ret EXCEPT ![t] = Raised]
    /\ hist' = hist \cup {"raise"}
    /\ UNCHANGED <<store, hits, misses, now, frame, calls, first, ops, gets>>
    /\ UNCHANGED notStore

\* get_or_create line 68: return self.put(key, payload, version, metadata)
GocPut(t) ==
    /\ pc[t] = "put"
    /\ LET key == frame[t].key
           snapshot == Snapshot(key, frame[t].payload[1], frame[t].version, now) IN
        /\ store' = StoreAfterPut(store, key, snapshot)
        /\ ret' = [ret EXCEPT ![t] = Returned(Some(snapshot))]
        /\ first' = IF key \in DOMAIN first THEN first
                    ELSE StoreAfterPut(first, key, snapshot)
    /\ now' = now + 1
    /\ pc' = [pc EXCEPT ![t] = "idle"]
    /\ UNCHANGED <<hits, misses, frame, calls, builds, ops, hist, gets>>
    /\ UNCHANGED notStore

StoreNext ==
    \/ \E t \in Threads, key \in Keys : Get(t, key)
    \/ \E t \in Threads, key \in Keys, payload \in Payloads, version \in Versions :
            Put(t, key, payload, version)
    \/ \E t \in Threads, key \in Keys, version \in Versions : GocGet(t, key, version)
    \/ \E t \in Threads, payload \in Payloads : GocBuild(t, payload)
    \/ \E t \in Threads : GocBuildRaises(t)
    \/ \E t \in Threads : GocPut(t)

(***************************************************************************)
(* HybridRetriever (additive rank fusion)                                  *)
(* Scores are integers; weights are in tenths, so fused scores are in      *)
(* tenths too (score 2 with weight 0.6 contributes 12).                    *)
(***************************************************************************)
StrategyNames == {"bm25", "vector"}

ItemIds == {"x", "y"}

Scores == {1, 2}

\* Configured weights, in tenths: 0, 0.6
Weights == {0, 6}

\* self._weights.get(name, 1.0), in tenths
DefaultWeight == 10

\* Hits one strategy finds for the query.
MaxHits == 2

\* Largest top_k a search is called with.
MaxTopK == 2

RECURSIVE SumSeq(_)
SumSeq(seq) == IF seq = <<>> THEN 0 ELSE Head(seq) + SumSeq(Tail(seq))

SeqsUpTo(S, n) == UNION {[1..m -> S] : m \in 0..n}

Min(a, b) == IF a < b THEN a ELSE b

\* seq[:k] for k >= 0
Take(seq, k) == SubSeq(seq, 1, Min(k, Len(seq)))

RetrievalItem(source, item_id, score, snippet, metadata) ==
    [source |-> source, item_id |-> item_id, score |-> score, snippet |-> snippet,
     metadata |-> metadata]

\* retriever(query, top_k): the strategy's ranked hits, cut to top_k as
\* BM25Index.search, VectorRetriever.search and GraphRetriever.search do
Retrieve(ans, name, k) ==
    LET found == Take(ans[name], k) IN
    [i \in 1..Len(found) |->
        RetrievalItem(name, found[i][1], found[i][2], name, [origin |-> name, rank |-> i])]

\* self._weights.get(name, 1.0)
WeightOf(w, name) == IF name \in DOMAIN w THEN w[name] ELSE DefaultWeight

\* position of item_id in the insertion-ordered dict `combined`, 0 if absent
IndexOf(combined, item_id) ==
    IF \E i \in 1..Len(combined) : combined[i].item_id = item_id
    THEN CHOOSE i \in 1..Len(combined) : combined[i].item_id = item_id
    ELSE 0

\* A merge that leaves an item already merged as it is.
MergeItemKeepFirst(combined, item, weight) ==
    LET pos == IndexOf(combined, item.item_id)
        scored == item.score * weight IN
    IF pos # 0
    THEN combined
    ELSE Append(combined,
                RetrievalItem(item.source, item.item_id, scored, item.snippet, item.metadata))

\* A merge that takes source, snippet and metadata from the latest hit.
MergeItemLatest(combined, item, weight) ==
    LET pos == IndexOf(combined, item.item_id)
        scored == item.score * weight IN
    IF pos # 0
    THEN [combined EXCEPT ![pos] =
            RetrievalItem(item.source, item.item_id, @.score + scored, item.snippet, item.metadata)]
    ELSE Append(combined,
                RetrievalItem(item.source, item.item_id, scored, item.snippet, item.metadata))

\* A merge that keeps the larger of the two scores.
MergeItemMax(combined, item, weight) ==
    LET pos == IndexOf(combined, item.item_id)
        scored == item.score * weight IN
    IF pos # 0
    THEN [combined EXCEPT ![pos].score = IF scored > @ THEN scored ELSE @]
    ELSE Append(combined,
                RetrievalItem(item.source, item.item_id, scored, item.snippet, item.metadata))

\* search lines 85-96: one hit merged into `combined`
MergeItem(combined, item, weight) ==
    LET pos == IndexOf(combined, item.item_id)
        scored == item.score * weight IN
    IF pos # 0
    THEN [combined EXCEPT ![pos].score = @ + scored]
    ELSE Append(combined,
                RetrievalItem(item.source, item.item_id, scored, item.snippet, item.metadata))

\* search lines 84-96: for item in items
RECURSIVE MergeItems(_, _, _)
MergeItems(combined, found, weight) ==
    IF found = <<>> THEN combined
    ELSE MergeItems(MergeItem(combined, Head(found), weight), Tail(found), weight)

\* search lines 81-96: for name, retriever in self._retrievers
RECURSIVE Combine(_, _, _, _, _)
Combine(combined, rs, w, ans, k) ==
    IF rs = <<>> THEN combined
    ELSE Combine(MergeItems(combined, Retrieve(ans, Head(rs), k), WeightOf(w, Head(rs))),
                 Tail(rs), w, ans, k)

\* one item put into a list sorted by score descending, after its equals
RECURSIVE InsertDesc(_, _)
InsertDesc(sorted, item) ==
    IF sorted = <<>> THEN <<item>>
    ELSE IF item.score > Head(sorted).score THEN <<item>> \o sorted
    ELSE <<Head(sorted)>> \o InsertDesc(Tail(sorted), item)

\* A descending sort that puts an item before its equals.
RECURSIVE SortDescNewestFirst(_)
SortDescNewestFirst(seq) ==
    IF seq = <<>> THEN <<>>
    ELSE LET rest == SortDescNewestFirst(SubSeq(seq, 1, Len(seq) - 1))
             last == seq[Len(seq)]
             above == SelectSeq(rest, LAMBDA other : other.score > last.score)
             below == SelectSeq(rest, LAMBDA other : other.score <= last.score) IN
         above \o <<last>> \o below

\* sorted(..., key=score, reverse=True): stable, descending
RECURSIVE SortDesc(_)
SortDesc(seq) ==
    IF seq = <<>> THEN <<>>
    ELSE InsertDesc(SortDesc(SubSeq(seq, 1, Len(seq) - 1)), seq[Len(seq)])

\* HybridRetriever.search(query, top_k)
HybridSearch(rs, w, ans, k) == Take(SortDesc(Combine(<<>>, rs, w, ans, k)), k)

\* search line 83: the calls retriever(query, top_k), one per configured pair
Invocations(rs, k) == [i \in 1..Len(rs) |-> [name |-> rs[i], top_k |-> k]]

\* search lines 89-96: the strategies' hits after the merge.  combined holds
\* RetrievalItem objects constructed by the merge, and `existing.score +=`
\* adds to those, so the objects the strategies returned stay as they were.
HitsAfterMerge(rs, w, ans, k) == ans

\* HybridRetriever(retrievers, weights) as constructed by a caller
FusionInit ==
    /\ retrievers \in {<<"bm25">>, <<"bm25", "vector">>, <<"vector", "bm25">>}
    /\ invoked = <<>>
    /\ weights \in UNION {[D -> Weights] : D \in SUBSET StrategyNames}
    /\ answers \in [StrategyNames -> SeqsUpTo(ItemIds \X Scores, MaxHits)]
    /\ top_k = 0
    /\ result = <<>>

\* a HybridRetriever with no strategies, never searched
FusionIdle ==
    /\ retrievers = <<>>
    /\ weights = <<>>
    /\ answers = [n \in StrategyNames |-> <<>>]
    /\ top_k = 0
    /\ result = <<>>
    /\ invoked = <<>>

FusionSearch(k) ==
    /\ top_k' = k
    /\ result' = HybridSearch(retrievers, weights, answers, k)
    /\ invoked' = Invocations(retrievers, k)
    /\ answers' = HitsAfterMerge(retrievers, weights, answers, k)
    /\ UNCHANGED <<retrievers, weights>>
    /\ UNCHANGED notFusion

FusionNext == \E k \in 0..MaxTopK : FusionSearch(k)

(***************************************************************************)
(* Text: a string is a sequence of characters.  tokenize() returns the     *)
(* maximal runs of word characters, lowercased.                            *)
(***************************************************************************)
Space == " "

\* str.lower() on the characters of the alphabet
Lower(c) == IF c = "A" THEN "a" ELSE IF c = "B" THEN "b" ELSE c

\* tokens found so far, and the run of word characters being read
RECURSIVE Scan(_, _, _)
Scan(text, tokens, run) ==
    IF text = <<>> THEN (IF run = <<>> THEN tokens ELSE Append(tokens, run))
    ELSE IF Head(text) = Space
         THEN Scan(Tail(text), IF run = <<>> THEN tokens ELSE Append(tokens, run), <<>>)
         ELSE Scan(Tail(text), tokens, Append(run, Lower(Head(text))))

\* tokenize(text): [token.lower() for token in _WORD_RE.findall(text)]
Tokenize(text) == Scan(text, <<>>, <<>>)

\* the tokens of the texts used below
Tokens == {<<"a">>, <<"b">>}

(***************************************************************************)
(* Embedding and cosine similarity.  A vector of `dim` floats is kept as   *)
(* its dimension and its nonzero coordinates (position -> value), and the  *)
(* values are the integer bucket counts: cheap_embed divides the counts by *)
(* their norm, a positive factor that cosine_similarity divides out again. *)
(* A similarity is kept exactly, as num / sqrt(den2) with num >= 0.        *)
(***************************************************************************)
\* cheap_embed(text, dim=32)
EmbedDim == 32

\* [0.0] * dim
ZeroVector(dim) == [dim |-> dim, at |-> <<>>]

\* vector[idx] += 1.0
Increment(vector, idx) ==
    [vector EXCEPT !.at =
        [i \in DOMAIN vector.at \cup {idx} |->
            IF i \in DOMAIN vector.at
            THEN (IF i = idx THEN vector.at[i] + 1 ELSE vector.at[i])
            ELSE 1]]

\* cheap_embed lines 67-70: vector[hash(token) % dim] += 1.0 for each token,
\* `seed` giving hash(token) % dim
RECURSIVE CountInto(_, _, _)
CountInto(vector, tokens, seed) ==
    IF tokens = <<>> THEN vector
    ELSE CountInto(Increment(vector, seed[Head(tokens)]), Tail(tokens), seed)

\* cheap_embed(text) in a process whose hash seed is `seed`
EmbedWith(seed, text) == CountInto(ZeroVector(EmbedDim), Tokenize(text), seed)

\* sum(a * b for a, b in zip(vec_a, vec_b)): only positions nonzero in both count
RECURSIVE SumProducts(_, _, _)
SumProducts(positions, at_a, at_b) ==
    IF positions = {} THEN 0
    ELSE LET i == CHOOSE i \in positions : TRUE IN
         at_a[i] * at_b[i] + SumProducts(positions \ {i}, at_a, at_b)

Dot(vec_a, vec_b) == SumProducts(DOMAIN vec_a.at \cap DOMAIN vec_b.at, vec_a.at, vec_b.at)

\* dot / (norm_a * norm_b), unless a norm is 0
Quotient(dot, sq_a, sq_b) ==
    IF sq_a = 0 \/ sq_b = 0 THEN [num |-> 0, den2 |-> 1]
    ELSE [num |-> dot, den2 |-> sq_a * sq_b]

\* cosine_similarity(vec_a, vec_b)
CosineSimilarity(vec_a, vec_b) ==
    IF vec_a.dim = 0 \/ vec_b.dim = 0 \/ vec_a.dim # vec_b.dim
    THEN [num |-> 0, den2 |-> 1]
    ELSE Quotient(Dot(vec_a, vec_b), Dot(vec_a, vec_a), Dot(vec_b, vec_b))

\* x > y for similarities
SimGreater(x, y) ==
    IF x.num >= 0 /\ y.num >= 0 THEN x.num * x.num * y.den2 > y.num * y.num * x.den2
    ELSE IF x.num < 0 /\ y.num < 0 THEN x.num * x.num * y.den2 < y.num * y.num * x.den2
    ELSE x.num >= 0

\* x = y for similarities
SimEqual(x, y) ==
    /\ (x.num >= 0) = (y.num >= 0)
    /\ x.num * x.num * y.den2 = y.num * y.num * x.den2

\* A reject test that also rejects a score equal to the threshold.
BelowThresholdOrEqual(score, t) == score.num * score.num * t[2] * t[2] <= t[1] * t[1] * score.den2

\* SemanticCache.get line 35: score < self._threshold
BelowThreshold(score, t) == score.num * score.num * t[2] * t[2] < t[1] * t[1] * score.den2

(***************************************************************************)
(* InMemoryVectorStore                                                     *)
(***************************************************************************)
MetaKeys == {"user_level"}

MetaValues == {"beginner", "advanced"}

\* what dict.get(key) gives for a missing key
NoValue == "None"

\* metadata dicts: {} and {"user_level": v}
Metadatas == UNION {[D -> MetaValues] : D \in SUBSET MetaKeys}

VectorItem(item_id, vector, metadata) ==
    [item_id |-> item_id, vector |-> vector, metadata |-> metadata]

\* metadata.get(key)
MetaGet(metadata, key) == IF key \in DOMAIN metadata THEN metadata[key] ELSE NoValue

\* _match_filters(metadata, filters)
MatchFilters(metadata, filters) ==
    \A key \in DOMAIN filters : MetaGet(metadata, key) = filters[key]

\* query line 45: `if filters and not _match_filters(...)`: continue
Eligible(item, filters) == ~(filters # <<>> /\ ~MatchFilters(item.metadata, filters))

\* An upsert that adds the item whether or not its id is stored.
UpsertAlwaysAdds(its, item) == Append(its, item)

\* upsert: self._items[item_id] = VectorItem(...), an existing id keeping its place
Upsert(its, item) ==
    IF \E i \in 1..Len(its) : its[i].item_id = item.item_id
    THEN [i \in 1..Len(its) |-> IF its[i].item_id = item.item_id THEN item ELSE its[i]]
    ELSE Append(its, item)

\* query lines 43-48: the (score, item) pairs of the eligible items, in order
RECURSIVE Scored(_, _, _)
Scored(its, vector, filters) ==
    IF its = <<>> THEN <<>>
    ELSE IF Eligible(Head(its), filters)
         THEN << <<CosineSimilarity(vector, Head(its).vector), Head(its)>> >>
                \o Scored(Tail(its), vector, filters)
         ELSE Scored(Tail(its), vector, filters)

\* one pair put into a list sorted by score descending, after its equals
RECURSIVE InsertScored(_, _)
InsertScored(sorted, pair) ==
    IF sorted = <<>> THEN <<pair>>
    ELSE IF SimGreater(pair[1], Head(sorted)[1]) THEN <<pair>> \o sorted
    ELSE <<Head(sorted)>> \o InsertScored(Tail(sorted), pair)

\* A sort that leaves out reverse=True: ascending, stable.
RECURSIVE SortScoredAscending(_)
SortScoredAscending(scored) ==
    IF scored = <<>> THEN <<>>
    ELSE LET rest == SortScoredAscending(SubSeq(scored, 1, Len(scored) - 1))
             last == scored[Len(scored)]
             before == SelectSeq(rest, LAMBDA p : ~SimGreater(p[1], last[1]))
             after == SelectSeq(rest, LAMBDA p : SimGreater(p[1], last[1])) IN
         before \o <<last>> \o after

\* scored.sort(key=lambda pair: pair[0], reverse=True): stable, descending
RECURSIVE SortScored(_)
SortScored(scored) ==
    IF scored = <<>> THEN <<>>
    ELSE InsertScored(SortScored(SubSeq(scored, 1, Len(scored) - 1)), scored[Len(scored)])

\* query line 50: [item for _, item in scored[:top_k]]
ItemsOf(ranked) == [i \in 1..Len(ranked) |-> ranked[i][2]]

\* InMemoryVectorStore.query(vector, top_k, filters)
VectorQuery(its, vector, k, filters) ==
    ItemsOf(Take(SortScored(Scored(its, vector, filters)), k))

(***************************************************************************)
(* SemanticCache                                                           *)
(***************************************************************************)
\* the query strings: "", "A a b", "a b b"
QueryTexts ==
    { <<>>,
      <<"A", " ", "a", " ", "b">>,
      <<"a", " ", "b", " ", "b">> }

Answers == {"answer1", "answer2"}

\* thresholds 0.8 and 0.9 (the default)
Thresholds == {<<4, 5>>, <<9, 10>>}

\* hash(token) % 32 under two hash seeds: distinct buckets, and a collision
HashSeeds ==
    { [t \in Tokens |-> IF t = <<"a">> THEN 3 ELSE 17],
      [t \in Tokens |-> 5] }

\* cheap_embed of every query text under every seed, computed once
EmbedTable == [seed \in HashSeeds |-> [text \in QueryTexts |-> EmbedWith(seed, text)]]

\* cheap_embed(text) in this process
CheapEmbed(text) == EmbedTable[bucket][text]

\* set calls in one behaviour
MaxSets == 2

CacheEntry(entry_id, query, answer, metadata) ==
    [entry_id |-> entry_id, query |-> query, answer |-> answer, metadata |-> metadata]

NoOp == [op |-> "none", query |-> <<>>, metadata |-> <<>>, val |-> None]

\* self._entries.get(entry_id)
EntryOf(es, entry_id) == IF entry_id \in DOMAIN es THEN Some(es[entry_id]) ELSE None

\* SemanticCache.get lines 31-38, given the embedded query and the query result
GetFrom(vector, found) ==
    IF found = <<>> THEN None
    ELSE IF BelowThreshold(CosineSimilarity(vector, found[1].vector), threshold) THEN None
    ELSE EntryOf(entries, found[1].item_id)

\* SemanticCache.get lines 29-30, given the embedded query
GetByVector(vector, metadata) == GetFrom(vector, VectorQuery(items, vector, 1, metadata))

\* SemanticCache.get(query, metadata): the return value
GetResult(query, metadata) == GetByVector(CheapEmbed(query), metadata)

\* SemanticCache(threshold), in a process with some hash seed
CacheInit ==
    /\ entries = <<>>
    /\ items = <<>>
    /\ threshold \in Thresholds
    /\ bucket \in HashSeeds
    /\ cret = NoOp

\* a SemanticCache with the default threshold, never used
CacheIdle ==
    /\ entries = <<>>
    /\ items = <<>>
    /\ threshold = <<9, 10>>
    /\ bucket = [t \in Tokens |-> 5]
    /\ cret = NoOp

CacheGet(query, metadata) ==
    /\ cret' = [op |-> "get", query |-> query, metadata |-> metadata,
                val |-> GetResult(query, metadata)]
    /\ UNCHANGED <<entries, items, threshold, bucket>>
    /\ UNCHANGED notCache

\* An entry id that is the same for every set.
NextEntryIdFixed(es) == 1

\* set line 47: entry_id = f"cache:{len(self._entries) + 1}", the n of it
NextEntryId(es) == Cardinality(DOMAIN es) + 1

\* set line 50: self._entries[entry_id] = entry
PutEntry(es, entry) ==
    [id \in DOMAIN es \cup {entry.entry_id} |->
        IF id = entry.entry_id THEN entry ELSE es[id]]

CacheSet(query, answer, metadata) ==
    /\ Cardinality(DOMAIN entries) < MaxSets
    /\ LET entry_id == NextEntryId(entries)
           entry == CacheEntry(entry_id, query, answer, metadata) IN
        /\ entries' = PutEntry(entries, entry)
        /\ items' = Upsert(items, VectorItem(entry_id, CheapEmbed(query), metadata))
        /\ cret' = [op |-> "set", query |-> query, metadata |-> metadata,
                    val |-> Some(entry)]
    /\ UNCHANGED <<threshold, bucket>>
    /\ UNCHANGED notCache

\* the metadata a get is given as filter: {} and {"user_level": v}, v a
\* level or None
GetFilters == UNION {[D -> MetaValues \cup {NoValue}] : D \in SUBSET MetaKeys}

CacheNext ==
    \/ \E query \in QueryTexts, metadata \in GetFilters : CacheGet(query, metadata)
    \/ \E query \in QueryTexts, answer \in Answers, metadata \in Metadatas :
            CacheSet(query, answer, metadata)

(***************************************************************************)
(* BM25Index.  A score is kept in fixed point, LnScale units to 1.         *)
(***************************************************************************)
DocIds == {"d1", "d2"}

\* the document texts: "", "a", "B b"
DocTexts == { <<>>, <<"a">>, <<"B", " ", "b">> }

\* the search queries: "", "a", "B b", "a b"
BM25Queries == DocTexts \cup { <<"a", " ", "b">> }

Document(doc_id, text, metadata) == [doc_id |-> doc_id, text |-> text, metadata |-> metadata]

\* the documents handed to add_documents: every id with every text and no
\* metadata, and one document that names its source
Documents ==
    {Document(id, text, <<>>) : id \in DocIds, text \in DocTexts}
        \cup {Document("d2", <<"a">>, [source |-> "web"])}

\* documents in one add_documents call
MaxBatch == 2

\* the largest document-frequency count a behaviour runs up to
MaxDf == 3

\* search defaults: k1 = 1.5, b = 0.75
K1 == [num |-> 3, den |-> 2]

B == [num |-> 3, den |-> 4]

\* fixed-point unit of a score, and the terms of the series math.log is summed to
LnScale == 10000

LnTerms == 24

\* sum of t / 1 + t*z2 / 3 + t*z2^2 / 5 + ..., in LnScale units
RECURSIVE AtanhSeries(_, _, _)
AtanhSeries(term, z2, k) ==
    IF k >= LnTerms \/ term = 0 THEN 0
    ELSE (term \div (2 * k + 1)) + AtanhSeries((term * z2) \div LnScale, z2, k + 1)

\* math.log(p / q) for p >= q > 0: 2 * atanh((p - q) / (p + q))
LnAtLeastOne(p, q) ==
    LET z == ((p - q) * LnScale) \div (p + q) IN
    2 * AtanhSeries(z, (z * z) \div LnScale, 0)

\* math.log(p / q) for p, q > 0
Ln(p, q) == IF p >= q THEN LnAtLeastOne(p, q) ELSE 0 - LnAtLeastOne(q, p)

\* search line 46: math.log((N - df + 0.5) / (df + 0.5) + 1), the argument
\* being (N + 1) / (df + 0.5) = (2N + 2) / (2 df + 1)
Idf(n, df) == Ln(2 * n + 2, 2 * df + 1)

\* Counter(doc_tokens)[term]: occurrences of term
RECURSIVE CountOf(_, _)
CountOf(tokens, term) ==
    IF tokens = <<>> THEN 0
    ELSE (IF Head(tokens) = term THEN 1 ELSE 0) + CountOf(Tail(tokens), term)

\* set(tokens)
TokenSet(tokens) == {tokens[i] : i \in 1..Len(tokens)}

\* self._doc_freq.get(term, 0)
DfGet(freq, term) == IF term \in DOMAIN freq THEN freq[term] ELSE 0

\* self._doc_freq.update(set(tokens)): one more for every term of the set
CounterUpdate(freq, terms) ==
    [term \in DOMAIN freq \cup terms |->
        DfGet(freq, term) + (IF term \in terms THEN 1 ELSE 0)]

\* self._docs[doc.doc_id] = doc, an id already present keeping its place
PutDoc(ds, doc) ==
    IF \E i \in 1..Len(ds) : ds[i].doc_id = doc.doc_id
    THEN [i \in 1..Len(ds) |-> IF ds[i].doc_id = doc.doc_id THEN doc ELSE ds[i]]
    ELSE Append(ds, doc)

\* self._doc_len[doc.doc_id] = len(tokens)
PutLen(lens, doc_id, n) ==
    [id \in DOMAIN lens \cup {doc_id} |-> IF id = doc_id THEN n ELSE lens[id]]

\* A loop body that indexes a document without tokens too.
AddDocumentWithoutTokens(index, doc) ==
    LET tokens == Tokenize(doc.text) IN
    [docs |-> PutDoc(index.docs, doc),
     doc_len |-> PutLen(index.doc_len, doc.doc_id, Len(tokens)),
     doc_freq |-> CounterUpdate(index.doc_freq, TokenSet(tokens))]

\* add_documents lines 22-28: the loop body for one document
AddDocument(index, doc) ==
    LET tokens == Tokenize(doc.text) IN
    IF tokens = <<>> THEN index
    ELSE [docs |-> PutDoc(index.docs, doc),
          doc_len |-> PutLen(index.doc_len, doc.doc_id, Len(tokens)),
          doc_freq |-> CounterUpdate(index.doc_freq, TokenSet(tokens))]

\* add_documents lines 22-28: the loop
RECURSIVE AddEach(_, _)
AddEach(index, documents) ==
    IF documents = <<>> THEN index
    ELSE AddEach(AddDocument(index, Head(documents)), Tail(documents))

\* sum(self._doc_len.values())
RECURSIVE SumLens(_)
SumLens(lens) ==
    IF DOMAIN lens = {} THEN 0
    ELSE LET id == CHOOSE id \in DOMAIN lens : TRUE IN
         lens[id] + SumLens([other \in DOMAIN lens \ {id} |-> lens[other]])

\* max(len(self._doc_len), 1)
Max(x, y) == IF x > y THEN x ELSE y

\* add_documents line 29
AvgLen(lens) == [num |-> SumLens(lens), den |-> Max(Cardinality(DOMAIN lens), 1)]

\* self._avg_len or 1
AvgOrOne(avg) == IF avg.num = 0 THEN [num |-> 1, den |-> 1] ELSE avg

\* search lines 47-49: idf * (numerator / denominator), with
\* numerator = tf * (k1 + 1) and
\* denominator = tf + k1 * (1 - b + b * (len / avg)), both multiplied by
\* k1.den * b.den * avg.num
TermScore(idf, tf, len, avg) ==
    LET numerator == tf * (K1.num + K1.den) * B.den * avg.num
        denominator == tf * K1.den * B.den * avg.num
                        + K1.num * ((B.den - B.num) * avg.num + B.num * len * avg.den) IN
    (idf * numerator) \div denominator

\* search lines 41-49: the score of one document, term by term of the query
RECURSIVE DocScore(_, _, _, _, _)
DocScore(query_tokens, doc_tokens, n, freq, avg) ==
    IF query_tokens = <<>> THEN 0
    ELSE LET term == Head(query_tokens)
             tf == CountOf(doc_tokens, term)
             rest == DocScore(Tail(query_tokens), doc_tokens, n, freq, avg) IN
         IF tf = 0 THEN rest
         ELSE TermScore(Idf(n, DfGet(freq, term)), tf, Len(doc_tokens), avg) + rest

\* A scoring loop that keeps every document whose score is not negative.
RECURSIVE ScoresOfNonNegative(_, _, _, _, _)
ScoresOfNonNegative(ds, query_tokens, n, freq, avg) ==
    IF ds = <<>> THEN <<>>
    ELSE LET doc == Head(ds)
             doc_tokens == Tokenize(doc.text)
             score == DocScore(query_tokens, doc_tokens, n, freq, avg)
             rest == ScoresOfNonNegative(Tail(ds), query_tokens, n, freq, avg) IN
         IF doc_tokens # <<>> /\ score >= 0
         THEN <<[doc_id |-> doc.doc_id, score |-> score]>> \o rest
         ELSE rest

\* search lines 35-51: scores.items(), in the order of self._docs
RECURSIVE ScoresOf(_, _, _, _, _)
ScoresOf(ds, query_tokens, n, freq, avg) ==
    IF ds = <<>> THEN <<>>
    ELSE LET doc == Head(ds)
             doc_tokens == Tokenize(doc.text)
             score == DocScore(query_tokens, doc_tokens, n, freq, avg)
             rest == ScoresOf(Tail(ds), query_tokens, n, freq, avg) IN
         IF doc_tokens # <<>> /\ score > 0
         THEN <<[doc_id |-> doc.doc_id, score |-> score]>> \o rest
         ELSE rest

\* text.strip().split(): the runs of non-blank characters
RECURSIVE SplitWords(_, _, _)
SplitWords(text, words, run) ==
    IF text = <<>> THEN (IF run = <<>> THEN words ELSE Append(words, run))
    ELSE IF Head(text) = Space
         THEN SplitWords(Tail(text), IF run = <<>> THEN words ELSE Append(words, run), <<>>)
         ELSE SplitWords(Tail(text), words, Append(run, Head(text)))

\* " ".join(words)
RECURSIVE JoinWords(_)
JoinWords(words) ==
    IF words = <<>> THEN <<>>
    ELSE IF Len(words) = 1 THEN Head(words)
    ELSE Head(words) \o <<Space>> \o JoinWords(Tail(words))

\* normalize_text(text)
NormalizeText(text) == JoinWords(SplitWords(text, <<>>, <<>>))

\* extractive_summary(text) of a text without sentence punctuation: its one
\* sentence, the normalized text
ExtractiveSummary(text) == NormalizeText(text)

\* A source that is the default whatever the metadata say.
SourceOfDefault(metadata) == "bm25"

\* doc.metadata.get("source", "bm25")
SourceOf(metadata) == IF "source" \in DOMAIN metadata THEN metadata["source"] ELSE "bm25"

\* self._docs[doc_id]
DocOf(ds, doc_id) == ds[CHOOSE i \in 1..Len(ds) : ds[i].doc_id = doc_id]

\* search lines 56-64: the RetrievalItem of one ranked (doc_id, score)
BM25Item(ds, pair) ==
    LET doc == DocOf(ds, pair.doc_id) IN
    [source |-> SourceOf(doc.metadata), item_id |-> pair.doc_id, score |-> pair.score,
     snippet |-> ExtractiveSummary(doc.text), metadata |-> doc.metadata]

\* A search that takes a query without tokens to match every document.
BM25SearchMatchAll(ds, freq, avg, query, k) ==
    LET query_tokens == Tokenize(query)
        ranked == IF query_tokens = <<>>
                  THEN Take([i \in 1..Len(ds) |-> [doc_id |-> ds[i].doc_id, score |-> 0]], k)
                  ELSE Take(SortDesc(ScoresOf(ds, query_tokens, Len(ds), freq, AvgOrOne(avg))), k) IN
    [i \in 1..Len(ranked) |-> BM25Item(ds, ranked[i])]

\* BM25Index.search(query, top_k) on the index (ds, freq, avg)
BM25Search(ds, freq, avg, query, k) ==
    LET query_tokens == Tokenize(query) IN
    IF query_tokens = <<>> THEN <<>>
    ELSE LET ranked == Take(SortDesc(ScoresOf(ds, query_tokens, Len(ds), freq, AvgOrOne(avg))), k) IN
         [i \in 1..Len(ranked) |-> BM25Item(ds, ranked[i])]

NoIndexOp == [op |-> "none", query |-> <<>>, top_k |-> 0, val |-> <<>>]

\* history after one more document is handed in
GiveDocument(history, doc) ==
    IF doc.doc_id \in history.regiven THEN history
    ELSE IF history.given[doc.doc_id] # None
    THEN [given |-> [history.given EXCEPT ![doc.doc_id] = None],
          regiven |-> history.regiven \cup {doc.doc_id}]
    ELSE [history EXCEPT !.given[doc.doc_id] = Some(doc)]

\* history after a batch is handed in
RECURSIVE GiveEach(_, _)
GiveEach(history, documents) ==
    IF documents = <<>> THEN history
    ELSE GiveEach(GiveDocument(history, Head(documents)), Tail(documents))

\* BM25Index()
BM25Init ==
    /\ given = [id \in DocIds |-> None]
    /\ regiven = {}
    /\ docs = <<>>
    /\ doc_freq = <<>>
    /\ doc_len = <<>>
    /\ avg_len = [num |-> 0, den |-> 1]
    /\ bret = NoIndexOp

\* add_documents(documents)
AddDocuments(documents) ==
    \E index \in {AddEach([docs |-> docs, doc_len |-> doc_len, doc_freq |-> doc_freq],
                         documents)} :
    /\ \A term \in DOMAIN index.doc_freq : index.doc_freq[term] <= MaxDf
    /\ docs' = index.docs
    /\ doc_len' = index.doc_len
    /\ doc_freq' = index.doc_freq
    /\ avg_len' = AvgLen(index.doc_len)
    /\ bret' = [op |-> "add", query |-> <<>>, top_k |-> 0, val |-> <<>>]
    /\ \E history \in {GiveEach([given |-> given, regiven |-> regiven], documents)} :
        given' = history.given /\ regiven' = history.regiven
    /\ UNCHANGED notBM25

\* search(query, top_k)
Search(query, k) ==
    /\ bret' = [op |-> "search", query |-> query, top_k |-> k,
                val |-> BM25Search(docs, doc_freq, avg_len, query, k)]
    /\ UNCHANGED <<docs, doc_freq, doc_len, avg_len, given, regiven>>
    /\ UNCHANGED notBM25

BM25Next ==
    \/ \E documents \in SeqsUpTo(Documents, MaxBatch) : AddDocuments(documents)
    \/ \E query \in BM25Queries, k \in 0..MaxTopK : Search(query, k)

(***************************************************************************)
(* InMemoryVectorStore used directly: upsert, batch_upsert, query          *)
(***************************************************************************)
VectorIds == {"v1", "v2"}

\* the list of floats `dense` as a vector of the model
Vec(dense) ==
    [dim |-> Len(dense),
     at |-> [i \in {i \in 1..Len(dense) : dense[i] # 0} |-> dense[i]]]

\* the vectors stored
Vectors == {Vec(<<1, 0>>), Vec(<<1, 1>>), Vec(<<0, 0>>)}

\* the vectors asked for
QueryVectors == {Vec(<<1, 0>>), Vec(<<0, 0>>), Vec(<<-1, 0>>)}

\* metadata of the stored items
ItemMetadatas == {<<>>, [user_level |-> "beginner"]}

\* filters: none, a value some item has, a value no item has, and None
Filters == UNION {[D -> MetaValues \cup {NoValue}] : D \in SUBSET MetaKeys}

\* the items handed to batch_upsert
BatchItems ==
    { VectorItem("v1", Vec(<<1, 1>>), <<>>),
      VectorItem("v1", Vec(<<1, 0>>), [user_level |-> "beginner"]),
      VectorItem("v2", Vec(<<1, 0>>), <<>>),
      VectorItem("v2", Vec(<<0, 0>>), [user_level |-> "beginner"]) }

\* batch_upsert lines 39-40: self._items[item.item_id] = item, item by item
RECURSIVE UpsertEach(_, _)
UpsertEach(its, batch) ==
    IF batch = <<>> THEN its
    ELSE UpsertEach(Upsert(its, Head(batch)), Tail(batch))

\* history: the most recent item of each id after a batch
RECURSIVE LatestAfter(_, _)
LatestAfter(last, batch) ==
    IF batch = <<>> THEN last
    ELSE LatestAfter([last EXCEPT ![Head(batch).item_id] = Some(Head(batch))], Tail(batch))

\* history: the ids upserted again by a batch
RECURSIVE ReplacedAfter(_, _, _)
ReplacedAfter(again, last, batch) ==
    IF batch = <<>> THEN again
    ELSE ReplacedAfter(IF last[Head(batch).item_id] # None
                       THEN again \cup {Head(batch).item_id} ELSE again,
                       [last EXCEPT ![Head(batch).item_id] = Some(Head(batch))],
                       Tail(batch))

NoStoreOp == [op |-> "none", vector |-> Vec(<<>>), top_k |-> 0, filters |-> <<>>, val |-> <<>>]

\* InMemoryVectorStore()
VectorInit ==
    /\ vitems = <<>>
    /\ vret = NoStoreOp
    /\ latest = [id \in VectorIds |-> None]
    /\ replaced = {}

\* upsert(item_id, vector, metadata)
VectorUpsert(item_id, vector, metadata) ==
    /\ vitems' = Upsert(vitems, VectorItem(item_id, vector, metadata))
    /\ latest' = [latest EXCEPT ![item_id] = Some(VectorItem(item_id, vector, metadata))]
    /\ replaced' = IF latest[item_id] # None THEN replaced \cup {item_id} ELSE replaced
    /\ vret' = [NoStoreOp EXCEPT !.op = "upsert"]
    /\ UNCHANGED notVector

\* batch_upsert(items)
VectorBatchUpsert(batch) ==
    /\ vitems' = UpsertEach(vitems, batch)
    /\ latest' = LatestAfter(latest, batch)
    /\ replaced' = ReplacedAfter(replaced, latest, batch)
    /\ vret' = [NoStoreOp EXCEPT !.op = "batch_upsert"]
    /\ UNCHANGED notVector

\* query(vector, top_k, filters)
VectorStoreQuery(vector, k, filters) ==
    /\ vret' = [op |-> "query", vector |-> vector, top_k |-> k, filters |-> filters,
                val |-> VectorQuery(vitems, vector, k, filters)]
    /\ UNCHANGED <<vitems, latest, replaced>>
    /\ UNCHANGED notVector

VectorNext ==
    \/ \E item_id \in VectorIds, vector \in Vectors, metadata \in ItemMetadatas :
            VectorUpsert(item_id, vector, metadata)
    \/ \E batch \in SeqsUpTo(BatchItems, MaxBatch) : VectorBatchUpsert(batch)
    \/ \E vector \in QueryVectors, k \in 0..MaxTopK, filters \in Filters :
            VectorStoreQuery(vector, k, filters)

(***************************************************************************)
(* GraphRetriever                                                          *)
(***************************************************************************)
GraphNodes == {"n1", "n2", "n3"}

\* the nodes that may have an adjacency entry
SourceNodes == {"n1", "n2"}

\* longest adjacency list
MaxNeighbors == 2

\* the node texts: none, or "a" for n2 and "B  b" for n3
NodeTexts == {<<>>, [n2 |-> <<"a">>, n3 |-> <<"B", " ", " ", "b">>]}

\* self._adjacency.get(node_id, [])
Related(adj, node_id) == IF node_id \in DOMAIN adj THEN adj[node_id] ELSE <<>>

\* self._node_text.get(related_id, "")
TextOf(texts, node_id) == IF node_id \in DOMAIN texts THEN texts[node_id] ELSE <<>>

\* search lines 31-38: the RetrievalItem of one neighbor
GraphItem(texts, related_id) ==
    [source |-> "graph", item_id |-> related_id, score |-> 1,
     snippet |-> ExtractiveSummary(TextOf(texts, related_id)),
     metadata |-> [source |-> "graph"]]

\* A search that returns the whole adjacency list.
GraphSearchUncut(adj, texts, node_id, k) ==
    LET related == Related(adj, node_id) IN
    [i \in 1..Len(related) |-> GraphItem(texts, related[i])]

\* GraphRetriever.search(node_id, top_k)
GraphSearch(adj, texts, node_id, k) ==
    LET related == Take(Related(adj, node_id), k) IN
    [i \in 1..Len(related) |-> GraphItem(texts, related[i])]

NoSearch == [op |-> "none", node_id |-> "n1", top_k |-> 0, val |-> <<>>]

\* GraphRetriever(adjacency, node_text)
GraphInit ==
    /\ adjacency \in UNION {[D -> SeqsUpTo(GraphNodes, MaxNeighbors)] : D \in SUBSET SourceNodes}
    /\ node_text \in NodeTexts
    /\ gret = NoSearch

\* a GraphRetriever over an empty graph, never used
GraphIdle ==
    /\ adjacency = <<>>
    /\ node_text = <<>>
    /\ gret = NoSearch

GraphRetrieverSearch(node_id, k) ==
    /\ gret' = [op |-> "search", node_id |-> node_id, top_k |-> k,
                val |-> GraphSearch(adjacency, node_text, node_id, k)]
    /\ UNCHANGED <<adjacency, node_text>>
    /\ UNCHANGED notGraph

GraphNext == \E node_id \in GraphNodes, k \in 0..MaxTopK : GraphRetrieverSearch(node_id, k)

(***************************************************************************)
(* SimpleWorkflow over its InMemoryCheckpoint                              *)
(***************************************************************************)
Sessions == {"s1", "s2"}

Intents == {"concept", "error"}

ToolLists == {<<>>, <<"graph_explorer">>}

\* run calls in one behaviour
MaxRuns == 2

DEFAULT_WORKFLOW_PLAN == <<"route", "retrieve", "compose">>

\* the methods class InMemoryCheckpoint defines
CheckpointMethods == {"save", "history"}

WorkflowState(name, payload, created_at) ==
    [name |-> name, payload |-> payload, created_at |-> created_at]

\* InMemoryCheckpoint.save: self._states.setdefault(session_id, []).append(state)
Save(sts, session_id, state) ==
    [id \in DOMAIN sts \cup {session_id} |->
        LET saved == IF id \in DOMAIN sts THEN sts[id] ELSE <<>> IN
        IF id = session_id THEN Append(saved, state) ELSE saved]

\* InMemoryCheckpoint.history: self._states.get(session_id, [])
History(sts, session_id) == IF session_id \in DOMAIN sts THEN sts[session_id] ELSE <<>>

\* SimpleWorkflow._save_state at clock reading `at`
SaveState(sts, session_id, step_name, payload, at) ==
    Save(sts, session_id, WorkflowState(step_name, payload, at))

\* the checkpoint after run's three _save_state calls
StatesAfterRun(sts, session_id, intent, tools, at) ==
    SaveState(
        SaveState(
            SaveState(sts, session_id, "route", [intent |-> intent], at),
            session_id, "retrieve", [tools |-> tools], at + 1),
        session_id, "compose", <<>>, at + 2)

\* self._checkpoint.<method>(session_id): the call returns what the method
\* returns, and raises AttributeError when the class has no such method
CallCheckpoint(method, sts, session_id) ==
    IF method \notin CheckpointMethods
    THEN [status |-> "raise", val |-> "AttributeError"]
    ELSE [status |-> "ok", val |-> History(sts, session_id)]

NoRun == [op |-> "none", session_id |-> "s1", status |-> "ok", val |-> <<>>]

\* SimpleWorkflow()
WorkflowInit ==
    /\ states = <<>>
    /\ wclock = 0
    /\ wfret = NoRun

\* run(session_id, intent, tools)
WorkflowRun(session_id, intent, tools) ==
    /\ wclock < 3 * MaxRuns
    /\ states' = StatesAfterRun(states, session_id, intent, tools, wclock)
    /\ wclock' = wclock + 3
    /\ wfret' = [op |-> "run", session_id |-> session_id, status |-> "ok",
                 val |-> DEFAULT_WORKFLOW_PLAN]
    /\ UNCHANGED notWorkflow

\* get_history(session_id): return self._checkpoint.get_all(session_id)
GetHistory(session_id) ==
    /\ LET called == CallCheckpoint("get_all", states, session_id) IN
        wfret' = [op |-> "get_history", session_id |-> session_id,
                  status |-> called.status, val |-> called.val]
    /\ UNCHANGED <<states, wclock>>
    /\ UNCHANGED notWorkflow

WorkflowNext ==
    \/ \E session_id \in Sessions, intent \in Intents, tools \in ToolLists :
            WorkflowRun(session_id, intent, tools)
    \/ \E session_id \in Sessions : GetHistory(session_id)

(***************************************************************************)
(* ProgressTrackingService.  Proficiency is in hundredths.                 *)
(***************************************************************************)
Users == {"u1", "u2"}

RoadmapNodes == <<"a", "b", "c">>

\* roadmap.edges: no edge, a chain, a join, a fork, an edge listed twice,
\* a cycle, and a join whose sources are chained
EdgeLists ==
    { <<>>,
      << <<"a", "b">>, <<"b", "c">> >>,
      << <<"a", "c">>, <<"b", "c">> >>,
      << <<"a", "b">>, <<"a", "c">> >>,
      << <<"a", "b">>, <<"a", "b">> >>,
      << <<"a", "b">>, <<"b", "a">> >>,
      << <<"a", "c">>, <<"b", "c">>, <<"a", "b">> >> }

QuizScores == {40, 120}

\* complete_node calls in one behaviour
MaxCompletions == 2

LearningState(status, proficiency, last_reviewed, decay_factor) ==
    [status |-> status, proficiency |-> proficiency,
     last_reviewed |-> last_reviewed, decay_factor |-> decay_factor]

\* _build_prereq_map(edges).get(node_id, []): the sources of the edges into
\* the node, in edge order
RECURSIVE PrereqsOf(_, _)
PrereqsOf(edges, node_id) ==
    IF edges = <<>> THEN <<>>
    ELSE (IF Head(edges)[2] = node_id THEN <<Head(edges)[1]>> ELSE <<>>)
            \o PrereqsOf(Tail(edges), node_id)

\* unlock_children line 66: [target for source, target in edges if source == node_id]
RECURSIVE ChildrenOf(_, _)
ChildrenOf(edges, node_id) ==
    IF edges = <<>> THEN <<>>
    ELSE (IF Head(edges)[1] = node_id THEN <<Head(edges)[2]>> ELSE <<>>)
            \o ChildrenOf(Tail(edges), node_id)

\* initialize lines 31-38: the state map of a roadmap
InitialStates(rm) ==
    [node_id \in {rm.nodes[i] : i \in 1..Len(rm.nodes)} |->
        LearningState(IF PrereqsOf(rm.edges, node_id) = <<>> THEN "AVAILABLE" ELSE "LOCKED",
                      0, None, 8)]

\* min(1.0, max(0.0, quiz_score / 100)), in hundredths
Proficiency(quiz_score) ==
    IF quiz_score < 0 THEN 0 ELSE IF quiz_score > 100 THEN 100 ELSE quiz_score

\* all(self._state[user_id][pr].status == "COMPLETED" for pr in prereqs)
AllCompleted(state_map, prereqs) ==
    \A i \in 1..Len(prereqs) : state_map[prereqs[i]].status = "COMPLETED"

\* An unlock loop that does not look at the prerequisites.
RECURSIVE UnlockLoopAnyChild(_, _, _, _)
UnlockLoopAnyChild(state_map, edges, children, unlocked) ==
    IF children = <<>> THEN [state_map |-> state_map, unlocked |-> unlocked]
    ELSE LET child == Head(children) IN
         IF state_map[child].status = "LOCKED"
         THEN UnlockLoopAnyChild([state_map EXCEPT ![child].status = "AVAILABLE"], edges,
                                 Tail(children), Append(unlocked, child))
         ELSE UnlockLoopAnyChild(state_map, edges, Tail(children), unlocked)

\* unlock_children lines 67-73: for child in children
RECURSIVE UnlockLoop(_, _, _, _)
UnlockLoop(state_map, edges, children, unlocked) ==
    IF children = <<>> THEN [state_map |-> state_map, unlocked |-> unlocked]
    ELSE LET child == Head(children) IN
         IF /\ AllCompleted(state_map, PrereqsOf(edges, child))
            /\ state_map[child].status = "LOCKED"
         THEN UnlockLoop([state_map EXCEPT ![child].status = "AVAILABLE"], edges,
                         Tail(children), Append(unlocked, child))
         ELSE UnlockLoop(state_map, edges, Tail(children), unlocked)

NoTracking == [op |-> "none", user_id |-> "u1", node_id |-> "a", status |-> "ok", val |-> <<>>]

\* what a tracking operation leaves in pret
Tracked(op, user_id, node_id, status, val) ==
    [op |-> op, user_id |-> user_id, node_id |-> node_id, status |-> status, val |-> val]

\* ProgressTrackingService(), and the roadmap its caller works with
ProgressInit ==
    /\ pstate = <<>>
    /\ roadmap \in {[nodes |-> RoadmapNodes, edges |-> edges] : edges \in EdgeLists}
    /\ pclock = 0
    /\ pret = NoTracking

\* a ProgressTrackingService never used
ProgressIdle ==
    /\ pstate = <<>>
    /\ roadmap = [nodes |-> RoadmapNodes, edges |-> <<>>]
    /\ pclock = 0
    /\ pret = NoTracking

\* initialize(user_id, roadmap)
Initialize(user_id) ==
    /\ pstate' = [u \in DOMAIN pstate \cup {user_id} |->
                    IF u = user_id THEN InitialStates(roadmap) ELSE pstate[u]]
    /\ pret' = Tracked("initialize", user_id, "a", "ok", <<>>)
    /\ UNCHANGED <<roadmap, pclock>>
    /\ UNCHANGED notProgress

\* complete_node(user_id, node_id, quiz_score); self._state[user_id] raises
\* KeyError for a user never initialized
CompleteNode(user_id, node_id, quiz_score) ==
    /\ pclock < MaxCompletions
    /\ IF user_id \notin DOMAIN pstate
       THEN /\ pret' = Tracked("complete_node", user_id, node_id, "raise", "KeyError")
            /\ UNCHANGED <<pstate, pclock>>
       ELSE /\ pstate' = [pstate EXCEPT ![user_id][node_id] =
                            LearningState("COMPLETED", Proficiency(quiz_score),
                                          Some(pclock), @.decay_factor)]
            /\ pclock' = pclock + 1
            /\ pret' = Tracked("complete_node", user_id, node_id, "ok", <<>>)
    /\ UNCHANGED roadmap
    /\ UNCHANGED notProgress

\* unlock_children(user_id, roadmap, completed_node_id); with a child to look
\* at, self._state[user_id] raises KeyError for a user never initialized
UnlockChildren(user_id, completed_node_id) ==
    /\ LET children == ChildrenOf(roadmap.edges, completed_node_id) IN
        IF children = <<>>
        THEN /\ pret' = Tracked("unlock_children", user_id, completed_node_id, "ok", <<>>)
             /\ pstate' = pstate
        ELSE IF user_id \notin DOMAIN pstate
        THEN /\ pret' = Tracked("unlock_children", user_id, completed_node_id, "raise", "KeyError")
             /\ pstate' = pstate
        ELSE \E done \in {UnlockLoop(pstate[user_id], roadmap.edges, children, <<>>)} :
                /\ pstate' = [pstate EXCEPT ![user_id] = done.state_map]
                /\ pret' = Tracked("unlock_children", user_id, completed_node_id, "ok",
                                   done.unlocked)
    /\ UNCHANGED <<roadmap, pclock>>
    /\ UNCHANGED notProgress

ProgressNext ==
    \/ \E user_id \in Users : Initialize(user_id)
    \/ \E user_id \in Users, node_id \in {"a", "b", "c"}, quiz_score \in QuizScores :
            CompleteNode(user_id, node_id, quiz_score)
    \/ \E user_id \in Users, node_id \in {"a", "b", "c"} : UnlockChildren(user_id, node_id)

(***************************************************************************)
(* WebSearchService (service/retrieval/web_search_service.py): a search    *)
(* over the Tavily and Exa clients, cached in the snapshot store.  The     *)
(* service is the store's only caller here and its calls are sequential,   *)
(* so a search is one step over store, hits, misses and now.               *)
(***************************************************************************)
WebQueries == {"react docs", "python docs"}

WebTopKs == {1, 2}

\* SearchEngine
SearchEngines == {"tavily", "exa", "all"}

MaxSearches == 2

CACHE_VERSION == "web_search_v3"

\* a result as a client hands it over; scores are in units of 0.00001
WebResult(url, score) == [url |-> url, score |-> score]

\* what self._tavily.search(query, max_results=top_k) may do
TavilyOutcomes == {"raise", <<WebResult("u1", 91234)>>}

\* what self._exa.search(query, max_results=top_k) may do
ExaOutcomes == {<<WebResult("U1", 95000)>>, <<WebResult("", 99000), WebResult("u2", 91232)>>}

\* round(result.score, 4); no score used here ends in a 5
Round4(score) == ((score + 5) \div 10) * 10

\* str(item.get("url") or "").strip().lower()
UrlKey(url) == IF url = "U1" THEN "u1" ELSE url

\* WebSearchService.is_available
IsAvailable == ~external_off /\ (tavily_up \/ exa_up)

\* WebSearchService.available_engines
AvailableEngines ==
    (IF tavily_up THEN <<"tavily">> ELSE <<>>) \o (IF exa_up THEN <<"exa">> ELSE <<>>)

\* WebSearchService._get_engines_to_use
EnginesToUse(engine) ==
    IF ~IsAvailable THEN <<>>
    ELSE IF engine = "tavily" THEN (IF tavily_up THEN <<"tavily">> ELSE <<>>)
    ELSE IF engine = "exa" THEN (IF exa_up THEN <<"exa">> ELSE <<>>)
    ELSE AvailableEngines

InList(x, seq) == \E i \in 1..Len(seq) : seq[i] = x

\* _fetch: does it call the Tavily client, the Exa client
AsksTavily(engines) == InList("tavily", engines) /\ tavily_up

AsksExa(engines) == InList("exa", engines) /\ exa_up

\* _search_with_tavily, _search_with_exa: an exception of the client is
\* logged and leaves no results
EngineResults(outcome, source) ==
    IF outcome = "raise" THEN <<>>
    ELSE [i \in 1..Len(outcome) |->
            [url |-> outcome[i].url, score |-> Round4(outcome[i].score), source |-> source]]

\* the loop of _dedupe_results over `seen`, a dict in insertion order
RECURSIVE DedupeInto(_, _)
DedupeInto(seen, results) ==
    IF results = <<>> THEN seen
    ELSE LET item == Head(results)
             url == UrlKey(item.url)
             at == {i \in 1..Len(seen) : seen[i].key = url} IN
         IF url = "" THEN DedupeInto(seen, Tail(results))
         ELSE IF at = {} THEN
             DedupeInto(Append(seen, [key |-> url, item |-> item]), Tail(results))
         ELSE IF \E i \in at : item.score > seen[i].item.score THEN
             DedupeInto([i \in 1..Len(seen) |->
                            IF i \in at THEN [key |-> url, item |-> item] ELSE seen[i]],
                        Tail(results))
         ELSE DedupeInto(seen, Tail(results))

\* _dedupe_results
DedupeResults(results) ==
    LET seen == DedupeInto(<<>>, results) IN
    SortDesc([i \in 1..Len(seen) |-> seen[i].item])

\* the calls _fetch makes on the clients, each noted with the engines of
\* the search that made it
ClientCalls(query, k, engines) ==
    (IF AsksTavily(engines)
        THEN <<[client |-> "tavily", query |-> query, max_results |-> k,
                engines |-> engines]>> ELSE <<>>)
    \o (IF AsksExa(engines)
        THEN <<[client |-> "exa", query |-> query, max_results |-> k,
                engines |-> engines]>> ELSE <<>>)

\* WebSearchService._fetch, for a non-empty list of engines
Fetch(query, k, engines, tavily, exa) ==
    LET results == (IF AsksTavily(engines) THEN EngineResults(tavily, "tavily") ELSE <<>>)
                   \o (IF AsksExa(engines) THEN EngineResults(exa, "exa") ELSE <<>>) IN
    [query |-> query,
     results |-> Take(DedupeResults(results), k),
     generated_at |-> now,
     engines_used |-> engines,
     total_results_before_dedup |-> Len(results)]

\* A cache key that also carries the time of the search.
CacheKeyStamped(query, k, engines) == <<query, k, engines, now>>

\* search: stable_hash_json of {"query", "top_k", "engines"}, a SHA-256 of
\* the canonical JSON, taken to be free of collisions
CacheKey(query, k, engines) == <<query, k, engines>>

\* one entry of the record of searches
Searched(query, k, engine, use_cache, engines, val, external, looked, hit) ==
    [query |-> query, top_k |-> k, engine |-> engine, use_cache |-> use_cache,
     engines |-> engines, val |-> val, external |-> external, looked |-> looked,
     hit |-> hit]

\* WebSearchService(tavily_client, exa_client, snapshot_store): the clients
\* are or are not available, and stay so
WebInit ==
    /\ tavily_up \in BOOLEAN
    /\ exa_up \in BOOLEAN
    /\ external_off \in BOOLEAN
    /\ wcalls = <<>>
    /\ wdone = <<>>

\* The service while another component runs.
WebIdle ==
    /\ tavily_up = FALSE
    /\ exa_up = FALSE
    /\ external_off = FALSE
    /\ wcalls = <<>>
    /\ wdone = <<>>

\* WebSearchService.search(query, top_k, engine, use_cache); tavily and exa
\* are what the clients do if this search calls them
WebSearch(query, k, engine, use_cache, tavily, exa) ==
    /\ Len(wdone) < MaxSearches
    /\ \E engines \in {EnginesToUse(engine)} :
         IF engines = <<>> THEN
             /\ wdone' = Append(wdone, Searched(query, k, engine, use_cache, engines,
                                                <<>>, 0, FALSE, FALSE))
             /\ UNCHANGED <<store, hits, misses, now, wcalls>>
         ELSE IF use_cache THEN
             \E cached \in {Lookup(store, CacheKey(query, k, engines))} :
                 /\ hits' = HitsAfterGet(cached)
                 /\ misses' = MissesAfterGet(cached)
                 /\ IF GocHit(cached, CACHE_VERSION) THEN
                        /\ wdone' = Append(wdone, Searched(query, k, engine, use_cache,
                                              engines, cached[1].payload.results, 0,
                                              TRUE, HitsAfterGet(cached) > hits))
                        /\ UNCHANGED <<store, now, wcalls>>
                    ELSE
                        \E payload \in {Fetch(query, k, engines, tavily, exa)} :
                            /\ store' = StoreAfterPut(store, CacheKey(query, k, engines),
                                   Snapshot(CacheKey(query, k, engines), payload,
                                            CACHE_VERSION, now))
                            /\ now' = now + 1
                            /\ wcalls' = wcalls \o ClientCalls(query, k, engines)
                            /\ wdone' = Append(wdone, Searched(query, k, engine,
                                   use_cache, engines, payload.results,
                                   Len(ClientCalls(query, k, engines)), TRUE,
                                   HitsAfterGet(cached) > hits))
         ELSE
             \E payload \in {Fetch(query, k, engines, tavily, exa)} :
                 /\ wcalls' = wcalls \o ClientCalls(query, k, engines)
                 /\ wdone' = Append(wdone, Searched(query, k, engine, use_cache,
                                 engines, payload.results,
                                 Len(ClientCalls(query, k, engines)), FALSE, FALSE))
                 /\ now' = now + 1
                 /\ UNCHANGED <<store, hits, misses>>
    /\ UNCHANGED <<tavily_up, exa_up, external_off>>
    /\ UNCHANGED <<pc, frame, ret, calls, builds, first, ops, hist, gets>>
    /\ UNCHANGED notWeb

WebNext ==
    \E query \in WebQueries, k \in WebTopKs, engine \in SearchEngines,
       use_cache \in BOOLEAN, tavily \in TavilyOutcomes, exa \in ExaOutcomes :
        WebSearch(query, k, engine, use_cache, tavily, exa)

(***************************************************************************)
(* One specification per component                                         *)
(***************************************************************************)
InitStore == StoreInit /\ FusionIdle /\ CacheIdle /\ BM25Init /\ VectorInit /\ GraphIdle /\ WorkflowInit /\ ProgressIdle /\ WebIdle

SpecStore == InitStore /\ [][StoreNext]_vars

InitFusion == FusionInit /\ StoreInit /\ CacheIdle /\ BM25Init /\ VectorInit /\ GraphIdle /\ WorkflowInit /\ ProgressIdle /\ WebIdle

InitCache == CacheInit /\ StoreInit /\ FusionIdle /\ BM25Init /\ VectorInit /\ GraphIdle /\ WorkflowInit /\ ProgressIdle /\ WebIdle

InitBM25 == BM25Init /\ StoreInit /\ FusionIdle /\ CacheIdle /\ VectorInit /\ GraphIdle /\ WorkflowInit /\ ProgressIdle /\ WebIdle

SpecBM25 == InitBM25 /\ [][BM25Next]_vars

InitVector == VectorInit /\ StoreInit /\ FusionIdle /\ CacheIdle /\ BM25Init /\ GraphIdle /\ WorkflowInit /\ ProgressIdle /\ WebIdle

SpecVector == InitVector /\ [][VectorNext]_vars

InitGraph == GraphInit /\ StoreInit /\ FusionIdle /\ CacheIdle /\ BM25Init /\ VectorInit /\ WorkflowInit /\ ProgressIdle /\ WebIdle

SpecGraph == InitGraph /\ [][GraphNext]_vars

InitWorkflow == WorkflowInit /\ StoreInit /\ FusionIdle /\ CacheIdle /\ BM25Init /\ VectorInit /\ GraphIdle /\ ProgressIdle /\ WebIdle

SpecWorkflow == InitWorkflow /\ [][WorkflowNext]_vars

InitProgress ==
    /\ ProgressInit
    /\ StoreInit /\ FusionIdle /\ CacheIdle /\ BM25Init /\ VectorInit /\ GraphIdle /\ WorkflowInit /\ WebIdle

SpecProgress == InitProgress /\ [][ProgressNext]_vars

InitWeb ==
    /\ WebInit
    /\ StoreInit /\ FusionIdle /\ CacheIdle /\ BM25Init /\ VectorInit /\ GraphIdle /\ WorkflowInit /\ ProgressIdle

SpecWeb == InitWeb /\ [][WebNext]_vars

(***************************************************************************)
(* The three ranked searches side by side.  A BM25Index, an                *)
(* InMemoryVectorStore and a HybridRetriever share no state, so a          *)
(* behaviour that uses one of them and leaves the other two as constructed *)
(* shows everything an interleaving of the three would.                    *)
(***************************************************************************)
InitRanked ==
    /\ FusionInit \/ FusionIdle
    /\ BM25Init /\ VectorInit /\ StoreInit /\ CacheIdle /\ GraphIdle /\ WorkflowInit /\ ProgressIdle /\ WebIdle

RankedFusion == retrievers # <<>> /\ FusionNext

RankedBM25 == retrievers = <<>> /\ vitems = <<>> /\ vret = NoStoreOp /\ BM25Next

RankedVector == retrievers = <<>> /\ docs = <<>> /\ bret = NoIndexOp /\ VectorNext

RankedNext == RankedFusion \/ RankedBM25 \/ RankedVector

SpecRanked == InitRanked /\ [][RankedNext]_vars

SpecCache == InitCache /\ [][CacheNext]_vars

SpecFusion == InitFusion /\ [][FusionNext]_vars

(***************************************************************************)
(* SnapshotStore: properties                                               *)
(***************************************************************************)
\* Only get_or_create calls so far, one at a time, no builder failure.
Sequential == hist = {}

\* get_or_create calls for keys seen before, summed over the keys
RepeatCalls == Started - Cardinality({k \in Keys : calls[k] > 0})

\* C1: in a sequential run of get_or_create calls on an initially empty store
\* (no direct get or put, no failing builder) the builder runs exactly once per
\* distinct key, on the first call for the key; every completed call returns
\* the snapshot the first call created; the first call for a key adds 1 to
\* misses and each later one adds 1 to hits.
C1_BuildOncePerKey ==
    Sequential =>
        /\ \A k \in Keys :
            /\ builds[k] <= 1
            /\ calls[k] = 0 => builds[k] = 0 /\ k \notin DOMAIN store
            /\ (calls[k] > 0 /\ Busy = {}) => builds[k] = 1 /\ k \in DOMAIN store
            /\ k \in DOMAIN store => store[k] = first[k]
        /\ misses = Cardinality({k \in Keys : calls[k] > 0})
        /\ hits = RepeatCalls
        /\ \A t \in Threads :
            (pc[t] = "idle" /\ ret[t].status = "ok") =>
                /\ frame[t].key \in DOMAIN first
                /\ ret[t].val = Some(first[frame[t].key])
                /\ ret[t].val[1].payload = first[frame[t].key].payload

\* C1 witness: two completed calls on one unseen key, one build, one hit, one miss.
C1_Witness ==
    /\ Sequential
    /\ Busy = {}
    /\ calls["k1"] = 2 /\ calls["k2"] = 0
    /\ builds["k1"] = 1
    /\ hits = 1 /\ misses = 1

\* Two callers are both between their get step and their put step for one key.
Racing(t1, t2) ==
    /\ t1 # t2
    /\ pc[t1] \in {"build", "put"}
    /\ pc[t2] \in {"build", "put"}
    /\ frame[t1].key = frame[t2].key

C2_BothMiss ==
    \A t1, t2 \in Threads :
        Racing(t1, t2) =>
            /\ frame[t1].cached = None /\ frame[t2].cached = None
            /\ builds[frame[t1].key] >= Cardinality({t \in {t1, t2} : pc[t] = "put"})
            /\ ops = 2 => misses = 2 /\ hits = 0 /\ frame[t1].key \notin DOMAIN store

C2_PutOverwrites ==
    \A t \in Threads :
        (pc[t] = "put" /\ pc'[t] = "idle") =>
            LET key == frame[t].key IN
            /\ key \in DOMAIN store'
            /\ store'[key].payload = frame[t].payload[1]
            /\ store'[key].version = frame[t].version
            /\ ret'[t] = Returned(Some(store'[key]))
            /\ DOMAIN store' = DOMAIN store \cup {key}
            /\ \A k \in DOMAIN store : k # key => store'[k] = store[k]

C2_RaceDone ==
    \A k \in Keys :
        (ops = 2 /\ calls[k] = 2 /\ Busy = {} /\ hist = {"overlap"} /\ now = 2) =>
            /\ builds[k] = 2 /\ misses = 2 /\ hits = 0
            /\ DOMAIN store = {k}
            /\ store[k].created_at = 1
            /\ \E t \in Threads : ret[t] = Returned(Some(store[k]))

\* C2: when two get_or_create calls for one unseen key both do their get step
\* before either does its put step, both observe a miss and both invoke their
\* builder (two builds, misses 2, hits 0), and the second put overwrites the
\* snapshot of the first, leaving one snapshot for the key.
C2_UnguardedRace == []C2_BothMiss /\ []C2_RaceDone /\ [][C2_PutOverwrites]_vars

\* C2 witness: the race has run to its end and the two callers hold different
\* snapshots, the stored one being the later.
C2_Witness ==
    /\ ops = 2 /\ calls["k1"] = 2 /\ Busy = {} /\ hist = {"overlap"}
    /\ builds["k1"] = 2 /\ misses = 2 /\ hits = 0
    /\ ret["t1"].val # ret["t2"].val
    /\ ret["t1"].val[1].payload # ret["t2"].val[1].payload
    /\ store["k1"] = ret["t2"].val[1]
    /\ store["k1"].created_at = 1

C3_Step ==
    \A t \in Threads :
        \* the get step of a call that misses leaves the mapping alone
        /\ (pc[t] = "idle" /\ pc'[t] = "build") => store' = store
        \* the builder raising: the error reaches the caller, nothing is stored
        /\ (pc[t] = "build" /\ pc'[t] = "idle") =>
                /\ ret'[t] = Raised
                /\ store' = store
                /\ builds'[frame[t].key] = builds[frame[t].key] + 1
        \* a call for the key after the failure is a miss again and goes to its builder
        /\ \A u \in Threads :
            ( /\ pc[t] = "idle" /\ ret[t] = Raised
              /\ frame[t].key \notin DOMAIN store
              /\ pc[u] = "idle"
              /\ calls'[frame[t].key] = calls[frame[t].key] + 1
              /\ frame'[u] # frame[u] \/ pc'[u] # pc[u] ) =>
                /\ pc'[u] = "build"
                /\ misses' = misses + 1 /\ hits' = hits
        /\ (pc[t] = "build" /\ pc'[t] # "build") =>
                builds'[frame[t].key] = builds[frame[t].key] + 1

C3_AbsentAfterRaise ==
    \A t \in Threads :
        (pc[t] = "idle" /\ ret[t] = Raised /\ hist = {"raise"} /\ Busy = {}
            /\ calls[frame[t].key] = 1) => frame[t].key \notin DOMAIN store

\* C3: a builder that raises on a miss makes get_or_create raise and records no
\* snapshot: the mapping is what it was before the call, and the next
\* get_or_create for the key is a miss again that invokes its builder.
C3_BuilderFailure == []C3_AbsentAfterRaise /\ [][C3_Step]_vars

\* C3 witness: a call failed, and a second call for the same key missed and
\* invoked its builder.
C3_Witness ==
    /\ ret["t1"] = Raised /\ pc["t1"] = "idle"
    /\ frame["t1"].key = "k1"
    /\ hist = {"raise"}
    /\ pc["t2"] = "put" /\ frame["t2"].key = "k1"
    /\ builds["k1"] = 2 /\ misses = 2 /\ hits = 0
    /\ store = <<>>

C4_Step ==
    \A k \in Keys :
        (k \in DOMAIN store /\ calls'[k] = calls[k] + 1) =>
            /\ \E t \in Threads :
                /\ pc[t] = "idle" /\ pc'[t] = "idle"
                /\ frame'[t].key = k
                /\ ret'[t] = Returned(Some(store[k]))
            /\ builds' = builds
            /\ store' = store
            /\ pc' = pc
            /\ hits' = hits + 1 /\ misses' = misses

ContributionOf(name, item_id, w, ans, k) ==
    LET found == Retrieve(ans, name, k) IN
    SumSeq([j \in 1..Len(found) |->
        IF found[j].item_id = item_id THEN found[j].score * WeightOf(w, name) ELSE 0])

ExpectedScore(item_id, rs, w, ans, k) ==
    SumSeq([i \in 1..Len(rs) |-> ContributionOf(rs[i], item_id, w, ans, k)])

ReturnedBy(name, item_id, ans, k) ==
    \E j \in 1..Len(Retrieve(ans, name, k)) : Retrieve(ans, name, k)[j].item_id = item_id

\* C5: the fused score of every returned item id is the sum, over all strategy
\* hits carrying the id, of hit.score times the weight of the strategy that
\* produced the hit (1.0 when the name has no configured weight): s1*w1 + s2*w2
\* for an id two strategies return, not a maximum, an average or a rank value.
C5_FusedScoreIsWeightedSum ==
    /\ \A i \in 1..Len(result) :
        /\ result[i].score =
                ExpectedScore(result[i].item_id, retrievers, weights, answers, top_k)
        /\ \E r \in 1..Len(retrievers) :
                ReturnedBy(retrievers[r], result[i].item_id, answers, top_k)
    /\ \A i, j \in 1..Len(result) : result[i].item_id = result[j].item_id => i = j

\* C5 witness: "x" found by bm25 (score 2, default weight 1.0) and by vector
\* (score 1, weight 0.6) comes back with 2*1.0 + 1*0.6 = 2.6.
C5_Witness ==
    /\ retrievers = <<"bm25", "vector">>
    /\ DOMAIN weights = {"vector"} /\ weights["vector"] = 6
    /\ answers["bm25"] = << <<"x", 2>> >>
    /\ answers["vector"] = << <<"x", 1>> >>
    /\ top_k = 1
    /\ result = << RetrievalItem("bm25", "x", 26, "bm25", [origin |-> "bm25", rank |-> 1]) >>

\* the ranked list of (item id, fused score)
Ranked(found) == [i \in 1..Len(found) |-> <<found[i].item_id, found[i].score>>]

\* the strategy list without strategy `name`
RECURSIVE Without(_, _)
Without(rs, name) ==
    IF rs = <<>> THEN <<>>
    ELSE IF Head(rs) = name THEN Without(Tail(rs), name)
    ELSE <<Head(rs)>> \o Without(Tail(rs), name)

\* C6: a search run with a strategy's weight set to 0 returns the same ranked
\* list of (item id, fused score) as the search with that strategy removed
\* from the configuration.
C6_ZeroWeightIsOmission ==
    \A r \in 1..Len(retrievers) :
        (retrievers[r] \in DOMAIN weights /\ weights[retrievers[r]] = 0) =>
            Ranked(result) =
                Ranked(HybridSearch(Without(retrievers, retrievers[r]),
                                    weights, answers, top_k))

(***************************************************************************)
(* SemanticCache: properties                                               *)
(***************************************************************************)
\* similarity `score` is at least the threshold t[1] / t[2]
AtLeast(score, t) == score.num * score.num * t[2] * t[2] >= t[1] * t[1] * score.den2

\* similarity of the query of the last get to stored item i
SimilarityTo(i) == CosineSimilarity(CheapEmbed(cret.query), items[i].vector)

\* the stored items that pass the metadata filter of the last get
Neighbors == {i \in 1..Len(items) : MatchFilters(items[i].metadata, cret.metadata)}

\* the neighbors no other neighbor is more similar than
Nearest == {i \in Neighbors : \A j \in Neighbors : ~SimGreater(SimilarityTo(j), SimilarityTo(i))}

\* C7: get returns the entry of the nearest stored neighbor if and only if a
\* neighbor exists under the metadata filter and its cosine similarity to the
\* query embedding is greater than or equal to the threshold; a similarity
\* equal to the threshold is a hit, one below it returns absent, and an empty
\* cache returns absent.
C7_HitIffNearEnough ==
    cret.op = "get" =>
        /\ cret.val # None <=> \E i \in Nearest : AtLeast(SimilarityTo(i), threshold)
        /\ cret.val # None => \E i \in Nearest : cret.val = Some(entries[i])
        /\ items = <<>> => cret.val = None

\* C7 witness: a get whose nearest neighbor is exactly at the threshold
\* ("a b b" against the stored "A a b" at threshold 0.8) and is returned.
C7_Witness ==
    /\ cret.op = "get"
    /\ cret.val # None
    /\ threshold = <<4, 5>>
    /\ \E i \in Nearest :
        /\ cret.val = Some(entries[i])
        /\ SimEqual(SimilarityTo(i), [num |-> 4, den2 |-> 25])

\* The last get asks for the query and metadata of the last set, and the
\* query has a token.
GetOfLastSet ==
    /\ cret.op = "get"
    /\ entries # <<>>
    /\ cret.query = entries[Len(entries)].query
    /\ cret.metadata = entries[Len(entries)].metadata
    /\ Tokenize(cret.query) # <<>>

\* C8 as stated: whatever was set before, after set(query, answer, metadata)
\* with a query of at least one token, get(query, metadata) returns a
\* non-absent entry whose answer is the answer just set.
C8_GetReturnsLastSet ==
    GetOfLastSet =>
        /\ cret.val # None
        /\ cret.val[1].answer = entries[Len(entries)].answer

\* the neighbors whose embedding points the same way as the query's
Twins == {i \in Neighbors : SimEqual(SimilarityTo(i), [num |-> 1, den2 |-> 1])}

\* C8 amended: after set(query, answer, metadata) with a query of at least one
\* token, get(query, metadata) returns a non-absent entry: the earliest-set
\* entry among those that pass the metadata filter and whose embedding has
\* cosine similarity 1 to the query's.  It is the entry just set exactly when
\* no earlier such entry exists.
C8_GetReturnsEarliestTwin ==
    GetOfLastSet =>
        /\ Len(entries) \in Twins
        /\ cret.val = Some(entries[CHOOSE i \in Twins : \A j \in Twins : i <= j])
        /\ (cret.val = Some(entries[Len(entries)])) <=> Twins = {Len(entries)}

\* C8 witness: the same query set twice with different answers, then asked
\* for: the first entry comes back.
C8_Witness ==
    /\ GetOfLastSet
    /\ Len(entries) = 2
    /\ entries[1].query = entries[2].query
    /\ entries[1].answer # entries[2].answer
    /\ cret.val = Some(entries[1])

(***************************************************************************)
(* BM25Index: properties                                                   *)
(***************************************************************************)
\* the indexed documents whose text contains the term
Containing(term) == {i \in 1..Len(docs) : term \in TokenSet(Tokenize(docs[i].text))}

\* the indexed documents that share a token with the query
Sharing(query) == {i \in 1..Len(docs) : TokenSet(Tokenize(docs[i].text)) \cap TokenSet(Tokenize(query)) # {}}

\* the ids a search returned
ReturnedIds(found) == {found[i].item_id : i \in 1..Len(found)}

\* C9: in every index state add_documents calls lead to, every idf value
\* search uses is strictly positive, so every indexed document sharing a token
\* with the query is scored above 0 and returned when top_k is at least the
\* number of indexed documents; only documents sharing no token are left out.
C9_SharedTokenIsReturned ==
    /\ \A term \in DOMAIN doc_freq : Idf(Len(docs), doc_freq[term]) > 0
    /\ (bret.op = "search" /\ bret.top_k >= Len(docs)) =>
            ReturnedIds(bret.val) = {docs[i].doc_id : i \in Sharing(bret.query)}

\* C10: after any add_documents calls the document frequency of every term is
\* the number of distinct indexed document ids whose text contains the term,
\* so 0 <= df <= N; re-adding an indexed id changes no count.
C10_DfCountsIndexedDocs ==
    /\ \A term \in Tokens : DfGet(doc_freq, term) = Cardinality(Containing(term))
    /\ \A term \in DOMAIN doc_freq : doc_freq[term] <= Len(docs)

\* C11: search never returns a document that shares no token with the query,
\* whatever the index state and top_k.
C11_NoSharedTokenNeverReturned ==
    bret.op = "search" =>
        ReturnedIds(bret.val) \subseteq {docs[i].doc_id : i \in Sharing(bret.query)}

\* C11 witness: a search with room for every document returned one document
\* and left out an indexed one that shares no token with the query.
C11_Witness ==
    /\ bret.op = "search"
    /\ Len(docs) = 2
    /\ bret.top_k = 2
    /\ Len(bret.val) = 1
    /\ \E i \in 1..Len(docs) : i \notin Sharing(bret.query)

\* the documents handed to add_documents so far, when every id came once
Given == {given[id][1] : id \in {id \in DocIds : given[id] # None}}

\* those of them that have a token
GivenWithTokens == {doc \in Given : Tokenize(doc.text) # <<>>}

\* sum of the token counts of a set of documents
RECURSIVE TotalLength(_)
TotalLength(ds) ==
    IF ds = {} THEN 0
    ELSE LET doc == CHOOSE doc \in ds : TRUE IN
         Len(Tokenize(doc.text)) + TotalLength(ds \ {doc})

\* the index statistics are those of the set `ds` of documents
StatisticsOf(ds) ==
    /\ DOMAIN doc_len = {doc.doc_id : doc \in ds}
    /\ \A doc \in ds : doc_len[doc.doc_id] = Len(Tokenize(doc.text))
    /\ \A term \in Tokens :
        DfGet(doc_freq, term) = Cardinality({doc \in ds : term \in TokenSet(Tokenize(doc.text))})
    /\ DOMAIN doc_freq \subseteq Tokens
    /\ avg_len.num * Cardinality(ds) = TotalLength(ds) * avg_len.den

\* C12: for documents with distinct ids, whatever the batches and the order
\* of the add_documents calls, the final statistics (lengths, document
\* frequencies, average length) are those of the set of documents handed in;
\* after every add_documents call the average length is the mean length of
\* the documents indexed so far; a document without tokens is never indexed.
C12_StatisticsOfTheSet ==
    /\ regiven = {} => StatisticsOf(GivenWithTokens)
    /\ avg_len.num * Len(docs) = TotalLength({docs[i] : i \in 1..Len(docs)}) * avg_len.den
    /\ avg_len.den > 0
    /\ Len(docs) = 0 => avg_len.num = 0
    /\ \A i \in 1..Len(docs) : Tokenize(docs[i].text) # <<>>

\* C12 witness: d2 ("B b") and d1 ("a") were each handed in once, d2 first,
\* and the average length is 3/2.
C12_Witness ==
    /\ regiven = {}
    /\ Len(docs) = 2
    /\ docs[1].doc_id = "d2" /\ docs[2].doc_id = "d1"
    /\ avg_len = [num |-> 3, den |-> 2]
    /\ doc_freq = (<<"a">> :> 1 @@ <<"b">> :> 1)

(***************************************************************************)
(* InMemoryVectorStore: properties                                         *)
(***************************************************************************)
\* the positions of the stored items with this id
Holding(its, id) == {i \in 1..Len(its) : its[i].item_id = id}

C13_OnePerId ==
    /\ \A id \in VectorIds :
        IF latest[id] = None THEN Holding(vitems, id) = {}
        ELSE /\ Cardinality(Holding(vitems, id)) = 1
             /\ \A i \in Holding(vitems, id) : vitems[i] = latest[id][1]
    /\ vret.op = "query" =>
        \A i \in 1..Len(vret.val) :
            /\ latest[vret.val[i].item_id] = Some(vret.val[i])
            /\ \A j \in 1..Len(vret.val) : vret.val[j].item_id = vret.val[i].item_id => j = i

C13_OthersUnchanged ==
    \A id \in VectorIds :
        latest'[id] = latest[id] =>
            {vitems'[i] : i \in Holding(vitems', id)} = {vitems[i] : i \in Holding(vitems, id)}

HasEvery(item, filters) ==
    \A key \in DOMAIN filters :
        key \in DOMAIN item.metadata /\ item.metadata[key] = filters[key]

\* C14: a query with filters returns only items whose metadata has every
\* filtered key present with an equal value; an item whose metadata lacks a
\* filtered key is never returned, whatever the filter value.
C14_FilteredKeyPresentAndEqual ==
    vret.op = "query" =>
        \A i \in 1..Len(vret.val) : HasEvery(vret.val[i], vret.filters)

\* the stored items eligible for the last query
EligibleItems == {i \in 1..Len(vitems) : HasEvery(vitems[i], vret.filters)}

\* similarity of the vector of the last query to a stored item
QuerySimilarity(item) == CosineSimilarity(vret.vector, item.vector)

\* C15: a query returns exactly the min(top_k, number of eligible items)
\* eligible items of highest cosine similarity: no eligible item left out is
\* strictly more similar than a returned one, the similarity being 0 when a
\* norm is 0; with the index empty or no item passing the filters it returns
\* an empty list.
C15_TopKOfEligible ==
    vret.op = "query" =>
        LET returned == {i \in 1..Len(vitems) : \E j \in 1..Len(vret.val) : vret.val[j] = vitems[i]} IN
        /\ Len(vret.val) = Min(vret.top_k, Cardinality(EligibleItems))
        /\ Cardinality(returned) = Len(vret.val)
        /\ returned \subseteq EligibleItems
        /\ \A i \in returned, j \in EligibleItems \ returned :
                ~SimGreater(QuerySimilarity(vitems[j]), QuerySimilarity(vitems[i]))
        /\ \A i \in 1..Len(vitems) :
                (Dot(vitems[i].vector, vitems[i].vector) = 0 \/ Dot(vret.vector, vret.vector) = 0)
                    => QuerySimilarity(vitems[i]).num = 0
        /\ EligibleItems = {} => vret.val = <<>>

(***************************************************************************)
(* GraphRetriever: properties                                              *)
(***************************************************************************)
\* C16: search(node_id, top_k) with top_k >= 0 returns the first
\* min(top_k, length) entries of the node's adjacency list, in list order,
\* each with score 1.0 and source "graph"; never more than top_k items, never
\* an id that is not a direct out-neighbor, and nothing for a node without an
\* adjacency entry.
C16_FirstNeighborsInOrder ==
    gret.op = "search" =>
        LET listed == IF gret.node_id \in DOMAIN adjacency
                      THEN adjacency[gret.node_id] ELSE <<>> IN
        /\ Len(gret.val) = Min(gret.top_k, Len(listed))
        /\ Len(gret.val) <= gret.top_k
        /\ \A i \in 1..Len(gret.val) :
            /\ gret.val[i].item_id = listed[i]
            /\ gret.val[i].score = 1
            /\ gret.val[i].source = "graph"
        /\ gret.node_id \notin DOMAIN adjacency => gret.val = <<>>

\* C16 witness: n1 lists n2 then n3, n2 lists n3 and n1; a search of n1 with
\* top_k 1 returned n2 alone.
C16_Witness ==
    /\ gret.op = "search" /\ gret.node_id = "n1" /\ gret.top_k = 1
    /\ adjacency = [n1 |-> <<"n2", "n3">>, n2 |-> <<"n3", "n1">>]
    /\ Len(gret.val) = 1
    /\ gret.val[1].item_id = "n2"

(***************************************************************************)
(* Ranked searches: properties                                             *)
(***************************************************************************)
\* position of the document in self._docs
DocPosition(doc_id) == CHOOSE i \in 1..Len(docs) : docs[i].doc_id = doc_id

\* position of the item in the store's _items
ItemPosition(item_id) == CHOOSE i \in 1..Len(vitems) : vitems[i].item_id = item_id

\* the (strategy, rank) places where the last fused search met the id
Encounters(item_id) ==
    {place \in (1..Len(retrievers)) \X (1..MaxHits) :
        LET found == Take(answers[retrievers[place[1]]], top_k) IN
        place[2] <= Len(found) /\ found[place[2]][1] = item_id}

\* place p comes before place q
Before(p, q) == p[1] < q[1] \/ (p[1] = q[1] /\ p[2] < q[2])

\* the fused search met id x before it met id y
MetFirst(x, y) ==
    \E p \in Encounters(x) : \A q \in Encounters(y) : Before(p, q)

C17_BM25Ranked ==
    bret.op = "search" =>
        /\ Len(bret.val) <= bret.top_k
        /\ \A i, j \in 1..Len(bret.val) :
            i < j =>
                /\ bret.val[i].score >= bret.val[j].score
                /\ bret.val[i].score = bret.val[j].score =>
                        DocPosition(bret.val[i].item_id) < DocPosition(bret.val[j].item_id)

C17_VectorRanked ==
    vret.op = "query" =>
        /\ Len(vret.val) <= vret.top_k
        /\ \A i, j \in 1..Len(vret.val) :
            i < j =>
                /\ ~SimGreater(QuerySimilarity(vret.val[j]), QuerySimilarity(vret.val[i]))
                /\ SimEqual(QuerySimilarity(vret.val[i]), QuerySimilarity(vret.val[j])) =>
                        ItemPosition(vret.val[i].item_id) < ItemPosition(vret.val[j].item_id)

C17_FusionRanked ==
    /\ Len(result) <= top_k
    /\ \A i, j \in 1..Len(result) :
        i < j =>
            /\ result[i].score >= result[j].score
            /\ result[i].score = result[j].score =>
                    MetFirst(result[i].item_id, result[j].item_id)

\* C17: every ranked search (BM25Index.search, the vector store's query, the
\* fused HybridRetriever.search) called with top_k >= 0 returns at most top_k
\* items in non-increasing score order, items of equal score in the insertion
\* order of the underlying map: document insertion order, vector insertion
\* order, first-encounter order across the strategies.
C17_RankedAndStable == C17_BM25Ranked /\ C17_VectorRanked /\ C17_FusionRanked

\* C17 witness: d2 was indexed before d1, both score the same for the query,
\* and the search returned d2 then d1.
C17_Witness ==
    /\ bret.op = "search"
    /\ Len(bret.val) = 2
    /\ bret.val[1].score = bret.val[2].score
    /\ bret.val[1].item_id = "d2" /\ bret.val[2].item_id = "d1"
    /\ docs[1].doc_id = "d2"

(***************************************************************************)
(* SnapshotStore: get and put called directly                              *)
(***************************************************************************)
C18_GetStep ==
    \A t \in Threads, key \in Keys :
        Get(t, key) =>
            /\ store' = store
            /\ ret'[t].status = "ok"
            /\ IF key \in DOMAIN store
               THEN /\ ret'[t].val = Some(store[key])
                    /\ hits' = hits + 1 /\ misses' = misses
               ELSE /\ ret'[t].val = None
                    /\ misses' = misses + 1 /\ hits' = hits

\* C18: get(key) returns the stored snapshot and adds 1 to hits (misses
\* unchanged) when the key is present, returns absent without raising and
\* adds 1 to misses (hits unchanged) when it is not; the mapping is left
\* unchanged in both cases.
C18_GetCountsAndReturns == [][C18_GetStep]_vars

\* C18 witness: after a put, one caller's get found the key and the other
\* caller's get of another key found nothing.
C18_Witness ==
    /\ hist = {"put", "get"}
    /\ hits = 1 /\ misses = 1
    /\ DOMAIN store = {"k1"}
    /\ ret["t1"] = Returned(Some(store["k1"]))
    /\ ret["t2"] = Returned(None)

\* what a put of (key, payload, version) by caller t leaves behind
PutDone(t, key, payload, version) ==
    /\ key \in DOMAIN store'
    /\ store'[key].payload = payload /\ store'[key].version = version
    /\ Lookup(store', key) = ret'[t].val
    /\ ret'[t].status = "ok"
    /\ \A k \in Keys \ {key} : Lookup(store', k) = Lookup(store, k)
    /\ hits' = hits /\ misses' = misses
    /\ Size(store') = Size(store) + (IF key \in DOMAIN store THEN 0 ELSE 1)

C19_PutStep ==
    \A t \in Threads :
        /\ \A key \in Keys, payload \in Payloads, version \in Versions :
                Put(t, key, payload, version) => PutDone(t, key, payload, version)
        /\ GocPut(t) => PutDone(t, frame[t].key, frame[t].payload[1], frame[t].version)

\* C19: put(key, payload, version) stores a new snapshot for the key whether or
\* not one is there: right afterwards a get of the key returns a snapshot
\* with that payload and version, the snapshots of all other keys, hits and
\* misses are unchanged, and size() grows by 1 only if the key was new.
C19_PutStoresUnconditionally == [][C19_PutStep]_vars

\* C19 witness: k2 was put, k1 was put, then k1 was put again with another
\* payload and version: two snapshots, the one of k1 being the last put.
C19_Witness ==
    /\ hist = {"put"}
    /\ ops = 3
    /\ Size(store) = 2
    /\ store["k1"].created_at = 2
    /\ first["k1"].payload # store["k1"].payload
    /\ first["k1"].version # store["k1"].version
    /\ \E t \in Threads : ret[t] = Returned(Some(store["k1"]))

(***************************************************************************)
(* BM25Index.search with nothing to look for or nothing to look in         *)
(***************************************************************************)
\* a step that returns from search(query, top_k) is one that leaves the
\* arguments and the result of a search in bret
C20_SearchStep ==
    bret'.op = "search" /\ (Tokenize(bret'.query) = <<>> \/ docs = <<>>) =>
        /\ bret'.val = <<>>
        /\ <<docs, doc_freq, doc_len, avg_len>>' = <<docs, doc_freq, doc_len, avg_len>>

\* C20: search returns the empty list and leaves the index as it was whenever
\* the query has no tokens or the index holds no documents.
C20_NothingToSearchIsEmpty == [][C20_SearchStep]_vars

\* C20 witness: a query without tokens was searched in an index that holds a
\* document, with room for results, and nothing came back.
C20_Witness ==
    /\ bret.op = "search"
    /\ Tokenize(bret.query) = <<>>
    /\ bret.top_k > 0
    /\ docs # <<>>
    /\ bret.val = <<>>

(***************************************************************************)
(* BM25Index.search: the source of a returned item                         *)
(***************************************************************************)
\* every returned item's source is the document's metadata field "source",
\* or `default` when the metadata have no such field
SourceIsMetadataOr(default) ==
    bret.op = "search" =>
        \A i \in 1..Len(bret.val) :
            LET item == bret.val[i]
                doc == DocOf(docs, item.item_id) IN
            item.source = IF "source" \in DOMAIN doc.metadata
                          THEN doc.metadata["source"] ELSE default

\* C24: each item returned by search has the source of its document's
\* metadata, and "lexical" when the metadata have no source.
C24_SourceDefaultsToLexical == SourceIsMetadataOr("lexical")

\* C24, amended: each item returned by search has the source of its
\* document's metadata, and "bm25" when the metadata have no source.
C24_SourceDefaultsToBm25 == SourceIsMetadataOr("bm25")

\* C24 witness: one search returned a document whose metadata name a source
\* and a document whose metadata do not.
C24_Witness ==
    /\ bret.op = "search"
    /\ \E i, j \in 1..Len(bret.val) :
            /\ "source" \in DOMAIN DocOf(docs, bret.val[i].item_id).metadata
            /\ bret.val[i].source = "web"
            /\ "source" \notin DOMAIN DocOf(docs, bret.val[j].item_id).metadata
            /\ bret.val[j].source = "bm25"

(***************************************************************************)
(* HybridRetriever: the order of the strategies                            *)
(***************************************************************************)
\* the strategy list rs in every order
Reordered(rs) ==
    LET n == Len(rs)
        orders == {p \in [1..n -> 1..n] : \A i, j \in 1..n : p[i] = p[j] => i = j} IN
    {[i \in 1..n |-> rs[p[i]]] : p \in orders}

\* the (item id, fused score) pairs of a list of items
PairsOf(combined) == {<<combined[i].item_id, combined[i].score>> : i \in 1..Len(combined)}

\* the items merged when the strategies are listed as rs, before the sort and the cut
MergedBy(rs) == Combine(<<>>, rs, weights, answers, top_k)

RECURSIVE HitsMet(_)
HitsMet(rs) ==
    IF rs = <<>> THEN <<>>
    ELSE Retrieve(answers, Head(rs), top_k) \o HitsMet(Tail(rs))

\* the first hit met for the id
FirstHit(id) ==
    LET met == HitsMet(retrievers)
        at == CHOOSE i \in 1..Len(met) :
                /\ met[i].item_id = id
                /\ \A j \in 1..(i - 1) : met[j].item_id # id IN
    met[at]

C26_FieldsOfFirstHit ==
    invoked # <<>> =>
        \A i \in 1..Len(result) :
            LET hit == FirstHit(result[i].item_id) IN
            /\ result[i].source = hit.source
            /\ result[i].snippet = hit.snippet
            /\ result[i].metadata = hit.metadata

C27_ReturnedEntryHasFilterValues ==
    cret.op = "get" /\ cret.val # None =>
        \A key \in DOMAIN cret.metadata :
            /\ key \in DOMAIN cret.val[1].metadata
            /\ cret.val[1].metadata[key] = cret.metadata[key]

(***************************************************************************)
(* SemanticCache: the entries map and the vector index                     *)
(***************************************************************************)
\* the ids held by the private vector index
IndexedIds == {items[i].item_id : i \in 1..Len(items)}

C28_SameIds ==
    /\ DOMAIN entries = 1..Cardinality(DOMAIN entries)
    /\ \A id \in DOMAIN entries : entries[id].entry_id = id
    /\ IndexedIds = DOMAIN entries
    /\ \A i, j \in 1..Len(items) : items[i].item_id = items[j].item_id => i = j

C28_Step ==
    /\ cret'.op = "set" =>
            /\ \E id \in DOMAIN entries' \ DOMAIN entries :
                    /\ DOMAIN entries' = DOMAIN entries \cup {id}
                    /\ id = Cardinality(DOMAIN entries) + 1
                    /\ cret'.val = Some(entries'[id])
            /\ \A id \in DOMAIN entries : entries'[id] = entries[id]
            /\ Len(items') = Len(items) + 1
            /\ \A i \in 1..Len(items) : items'[i] = items[i]
    /\ cret'.op = "get" => entries' = entries /\ items' = items

C28_NearestIsStored ==
    cret.op = "get" =>
        LET vector == CheapEmbed(cret.query)
            found == VectorQuery(items, vector, 1, cret.metadata) IN
        found # <<>> /\ ~BelowThreshold(CosineSimilarity(vector, found[1].vector), threshold)
            => cret.val # None

\* C28: the n-th set creates the entry with id n, the entries map and the
\* vector index hold the same ids, a set adds one entry and leaves the
\* earlier ones as they are, a get changes neither the map nor the index, and
\* a get whose nearest neighbour reaches the threshold returns an entry.
C28_EntriesAndIndexAgree ==
    /\ [](C28_SameIds /\ C28_NearestIsStored)
    /\ [][C28_Step]_vars

\* C28 witness: after two sets, a get found a neighbour that reaches the
\* threshold and returned the second entry.
C28_Witness ==
    /\ Cardinality(DOMAIN entries) = 2
    /\ cret.op = "get"
    /\ cret.val = Some(entries[2])

(***************************************************************************)
(* SnapshotStore: the counters                                             *)
(***************************************************************************)
C29_Counted == hits + misses = gets + Started

C29_CounterStep ==
    /\ hits' >= hits /\ misses' >= misses
    /\ IF gets' # gets \/ calls' # calls
       THEN \/ hits' = hits + 1 /\ misses' = misses
            \/ hits' = hits /\ misses' = misses + 1
       ELSE hits' = hits /\ misses' = misses

\* C29: hits + misses is the number of get calls plus get_or_create calls
\* made so far; such a call adds 1 to exactly one of the two, no counter
\* ever decreases, and no other step (a put, a builder run) changes them.
C29_CountersCountLookups == []C29_Counted /\ [][C29_CounterStep]_vars

\* C29 witness: a put, a direct get that hit and a get_or_create that missed.
C29_Witness ==
    /\ "put" \in hist
    /\ gets = 1 /\ hits = 1
    /\ Started = 1 /\ misses = 1

(***************************************************************************)
(* SnapshotStore.get_or_create: hits and the stored payload                *)
(***************************************************************************)
C30_HitStep ==
    /\ DOMAIN store \subseteq DOMAIN store'
    /\ \A key \in DOMAIN store :
            calls'[key] # calls[key] =>
                /\ hits' = hits + 1 /\ misses' = misses
                /\ pc' = pc /\ builds' = builds /\ store' = store
                /\ \E t \in Threads :
                        frame'[t].key = key /\ ret'[t] = Returned(Some(store[key]))
                /\ \A t \in Threads :
                        ret'[t] # ret[t] => ret'[t] = Returned(Some(store[key]))
    /\ \A t \in Threads :
            pc[t] = "put" /\ pc'[t] = "idle" =>
                /\ frame[t].key \in DOMAIN store'
                /\ store'[frame[t].key].payload = frame[t].payload[1]

\* C30: a get_or_create stores what the builder returned, an empty payload
\* included, no key is ever removed, and every get_or_create that starts
\* while the key is stored is a hit that returns the stored snapshot without
\* running the builder, whatever the payload of that snapshot.
C30_HitDependsOnPresenceOnly == [][C30_HitStep]_vars

\* C30 witness: the builder returned the empty payload for k1, and two later
\* get_or_create calls for k1 hit and returned that snapshot, the builder
\* having run once.
C30_Witness ==
    /\ hist = {}
    /\ "k1" \in DOMAIN store
    /\ store["k1"].payload = "empty"
    /\ calls["k1"] = 3 /\ builds["k1"] = 1
    /\ hits = 2 /\ misses = 1
    /\ \E t \in Threads : ret[t] = Returned(Some(store["k1"]))

(***************************************************************************)
(* SimpleWorkflow: plan, checkpoints and history                           *)
(***************************************************************************)
\* the names of the states in a list
NamesOf(saved) == [i \in 1..Len(saved) |-> saved[i].name]

\* C23: a run returns the plan route, retrieve, compose and saves three states
\* with those names, in that order, at the end of its session's list; a
\* get_history returns the states saved for its session, in save order,
\* three per run.
C23_PlanAndHistory ==
    /\ wfret.op = "run" =>
            LET saved == History(states, wfret.session_id) IN
            /\ wfret.val = <<"route", "retrieve", "compose">>
            /\ Len(saved) >= 3
            /\ SubSeq(NamesOf(saved), Len(saved) - 2, Len(saved)) = wfret.val
    /\ wfret.op = "get_history" =>
            /\ wfret.status = "ok"
            /\ wfret.val = History(states, wfret.session_id)
            /\ \A i \in 1..Len(wfret.val) :
                    wfret.val[i].name = <<"route", "retrieve", "compose">>[((i - 1) % 3) + 1]

(***************************************************************************)
(* ProgressTrackingService: unlocking                                      *)
(***************************************************************************)
\* the prerequisites of a node: the sources of the roadmap's edges into it
Prerequisites(node_id) ==
    {roadmap.edges[i][1] : i \in {i \in 1..Len(roadmap.edges) : roadmap.edges[i][2] = node_id}}

\* the children of a node: the targets of the roadmap's edges out of it
Children(node_id) ==
    {roadmap.edges[i][2] : i \in {i \in 1..Len(roadmap.edges) : roadmap.edges[i][1] = node_id}}

\* the children of the node that the user has LOCKED with every prerequisite COMPLETED
Due(user_id, node_id) ==
    {child \in Children(node_id) :
        /\ pstate[user_id][child].status = "LOCKED"
        /\ \A pr \in Prerequisites(child) : pstate[user_id][pr].status = "COMPLETED"}

C22_UnlockStep ==
    pret'.op = "unlock_children" /\ pret'.status = "ok" =>
        LET user_id == pret'.user_id
            unlocked == pret'.val IN
        IF user_id \notin DOMAIN pstate
        THEN pstate' = pstate /\ unlocked = <<>>
        ELSE LET due == Due(user_id, pret'.node_id) IN
             /\ {unlocked[i] : i \in 1..Len(unlocked)} = due
             /\ Len(unlocked) = Cardinality(due)
             /\ DOMAIN pstate' = DOMAIN pstate
             /\ \A u \in DOMAIN pstate \ {user_id} : pstate'[u] = pstate[u]
             /\ \A node_id \in DOMAIN pstate[user_id] :
                    pstate'[user_id][node_id] =
                        IF node_id \in due
                        THEN [pstate[user_id][node_id] EXCEPT !.status = "AVAILABLE"]
                        ELSE pstate[user_id][node_id]

C22_NoEarlyUnlock ==
    \A user_id \in DOMAIN pstate \cap DOMAIN pstate' :
        \A node_id \in DOMAIN pstate[user_id] :
            /\ pstate[user_id][node_id].status = "LOCKED"
            /\ pstate'[user_id][node_id].status = "AVAILABLE"
            => \A pr \in Prerequisites(node_id) : pstate[user_id][pr].status = "COMPLETED"

\* C22: unlock_children(user, roadmap, n) makes AVAILABLE exactly the children
\* of n that are LOCKED with all prerequisites COMPLETED, returns exactly
\* their ids and changes nothing else; no step of initialize, complete_node
\* or unlock_children takes a node from LOCKED to AVAILABLE while one of
\* its prerequisites is not COMPLETED.
C22_UnlocksExactlyTheDue == [][C22_UnlockStep /\ C22_NoEarlyUnlock]_vars

\* C22 witness: c has the two prerequisites a and b, both were completed,
\* and unlock_children returned c and made it AVAILABLE.
C22_Witness ==
    /\ pret.op = "unlock_children" /\ pret.status = "ok"
    /\ pret.val = <<"c">>
    /\ Prerequisites("c") = {"a", "b"}
    /\ pstate[pret.user_id]["c"].status = "AVAILABLE"
    /\ pstate[pret.user_id]["a"].status = "COMPLETED"
    /\ pstate[pret.user_id]["b"].status = "COMPLETED"

\* Every search so far asked for the cache.
AllCached == \A i \in 1..Len(wdone) : wdone[i].use_cache

\* How often a client was called for a query and a top_k.
CallsTo(client, query, k) ==
    Cardinality({i \in 1..Len(wcalls) :
        wcalls[i].client = client /\ wcalls[i].query = query /\ wcalls[i].max_results = k})

\* How often a client was called for a query and a top_k by searches over
\* one list of engines.
CallsToBy(client, query, k, engines) ==
    Cardinality({i \in 1..Len(wcalls) :
        /\ wcalls[i].client = client /\ wcalls[i].query = query
        /\ wcalls[i].max_results = k /\ wcalls[i].engines = engines})

\* Search j gave what search i gave, called no client and was a hit of the store.
ServedFromCache(i, j) ==
    wdone[j].val = wdone[i].val /\ wdone[j].external = 0 /\ wdone[j].hit

EngineLists == {<<>>, <<"tavily">>, <<"exa">>, <<"tavily", "exa">>}

\* C21 as stated: when every search uses the cache, a client is called at
\* most once for a query and a top_k, and a search that repeats the query
\* and top_k of an earlier one returns the earlier results, calls no client
\* and is counted as a hit of the snapshot store.
C21_OncePerQueryAndTopK ==
    AllCached =>
        /\ \A client \in {"tavily", "exa"}, query \in WebQueries, k \in WebTopKs :
               CallsTo(client, query, k) <= 1
        /\ \A i, j \in 1..Len(wdone) :
               i < j /\ wdone[j].query = wdone[i].query /\ wdone[j].top_k = wdone[i].top_k
                   => ServedFromCache(i, j)

\* C21 amended: when every search uses the cache, a client is called at most
\* once for a query, a top_k and a list of engines in use; a search that
\* repeats the query, top_k and non-empty engine list of an earlier one
\* returns the earlier results, calls no client and is counted as a hit; a
\* search with no engine to use returns nothing, calls no client and does
\* not consult the store; and the store's hits are the searches so counted.
C21_OncePerQueryTopKAndEngines ==
    AllCached =>
        /\ \A client \in {"tavily", "exa"}, query \in WebQueries, k \in WebTopKs,
              engines \in EngineLists :
               CallsToBy(client, query, k, engines) <= 1
        /\ \A i, j \in 1..Len(wdone) :
               (/\ i < j /\ wdone[j].query = wdone[i].query
                /\ wdone[j].top_k = wdone[i].top_k /\ wdone[j].engines = wdone[i].engines
                /\ wdone[j].engines # <<>>)
                   => ServedFromCache(i, j)
        /\ \A j \in 1..Len(wdone) :
               wdone[j].engines = <<>>
                   => wdone[j].val = <<>> /\ wdone[j].external = 0 /\ ~wdone[j].looked
        /\ hits = Cardinality({j \in 1..Len(wdone) : wdone[j].hit})

\* Both engines answered a first search, and the same search again was
\* served from the store.
C21_Witness ==
    /\ Len(wdone) = 2 /\ AllCached
    /\ wdone[1].engines = <<"tavily", "exa">> /\ wdone[2].engines = wdone[1].engines
    /\ wdone[2].query = wdone[1].query /\ wdone[2].top_k = wdone[1].top_k
    /\ wdone[1].external = 2 /\ Len(wcalls) = 2
    /\ wdone[2].hit /\ hits = 1 /\ misses = 1
    /\ wdone[2].val # <<>> /\ wdone[2].val = wdone[1].val
    /\ wdone[2].val[1].source = "exa"

====
